---- MODULE Spec2Model ----
(***************************************************************************)
(* Membership scoring engine (src/src/ml/engine.ts), the Columbia          *)
(* geo classifier (utils/geo) and the application shell that drives them.  *)
(*                                                                         *)
(* Strings are sequences of one-character strings, so that trim,           *)
(* toLowerCase, includes, split, parseFloat and the regular expressions of *)
(* the source are computed character by character.                         *)
(*                                                                         *)
(* JavaScript numbers are modelled as tagged records: a finite value in    *)
(* fixed point (see Fx) or one of NaN, +Infinity, -Infinity, with the      *)
(* IEEE-754 rules for arithmetic and comparison on the special values.     *)
(***************************************************************************)
EXTENDS Integers, Sequences, FiniteSets, TLC

(***************************************************************************)
(* STRINGS                                                                 *)
(***************************************************************************)

LowerLetters ==
  <<"a","b","c","d","e","f","g","h","i","j","k","l","m",
    "n","o","p","q","r","s","t","u","v","w","x","y","z">>

UpperLetters ==
  <<"A","B","C","D","E","F","G","H","I","J","K","L","M",
    "N","O","P","Q","R","S","T","U","V","W","X","Y","Z">>

DigitChars == <<"0","1","2","3","4","5","6","7","8","9">>

Range(s) == { s[i] : i \in DOMAIN s }

IsDigit(c) == c \in Range(DigitChars)

IsUpper(c) == c \in Range(UpperLetters)

IsLower(c) == c \in Range(LowerLetters)

\* \w of a JavaScript regular expression: [A-Za-z0-9_]
IsWordChar(c) == IsDigit(c) \/ IsUpper(c) \/ IsLower(c) \/ c = "_"

\* White space removed by String.prototype.trim and matched by \s
IsSpace(c) == c \in {" ", "\t", "\n", "\r"}

IndexIn(c, s) == CHOOSE i \in DOMAIN s : s[i] = c

DigitVal(c) == IndexIn(c, DigitChars) - 1

\* String.prototype.charCodeAt for the characters of the model's alphabet
CharCode(c) ==
  IF IsLower(c) THEN 96 + IndexIn(c, LowerLetters)
  ELSE IF IsUpper(c) THEN 64 + IndexIn(c, UpperLetters)
  ELSE IF IsDigit(c) THEN 47 + IndexIn(c, DigitChars)
  ELSE CASE c = " "  -> 32
         [] c = "\t" -> 9
         [] c = "("  -> 40
         [] c = ")"  -> 41
         [] c = ","  -> 44
         [] c = "-"  -> 45
         [] c = "."  -> 46
         [] c = "/"  -> 47
         [] c = ":"  -> 58
         [] c = "_"  -> 95
         [] OTHER    -> 63

\* the sequence f with every element computed once
Tuple(f) == f \o <<>>

ToLowerChar(c) == IF IsUpper(c) THEN LowerLetters[IndexIn(c, UpperLetters)] ELSE c

\* String.prototype.toLowerCase
ToLowerCase(s) == Tuple([i \in DOMAIN s |-> ToLowerChar(s[i])])

RECURSIVE TrimStart(_)
TrimStart(s) ==
  IF s # <<>> /\ IsSpace(Head(s)) THEN TrimStart(Tail(s)) ELSE s

RECURSIVE TrimEnd(_)
TrimEnd(s) ==
  IF s # <<>> /\ IsSpace(s[Len(s)]) THEN TrimEnd(SubSeq(s, 1, Len(s) - 1)) ELSE s

\* String.prototype.trim
Trim(s) == TrimEnd(TrimStart(s))

\* sub occurs in s at position i (1-based)
MatchAt(s, sub, i) ==
  /\ i >= 1
  /\ i + Len(sub) - 1 <= Len(s)
  /\ \A k \in 1..Len(sub) : s[i + k - 1] = sub[k]

\* String.prototype.includes
Includes(s, sub) == \E i \in 1..(Len(s) + 1) : MatchAt(s, sub, i)

\* String.prototype.startsWith
StartsWith(s, sub) == MatchAt(s, sub, 1)

\* String.prototype.indexOf, 1-based; 0 when sub does not occur
IndexOf(s, sub) ==
  IF Includes(s, sub)
  THEN CHOOSE i \in 1..(Len(s) + 1) :
         MatchAt(s, sub, i) /\ \A j \in 1..(i - 1) : ~MatchAt(s, sub, j)
  ELSE 0

\* String.prototype.split with a non-empty separator
RECURSIVE Split(_, _)
Split(s, sep) ==
  LET i == IndexOf(s, sep)
  IN  IF i = 0 THEN <<s>>
      ELSE <<SubSeq(s, 1, i - 1)>> \o Split(SubSeq(s, i + Len(sep), Len(s)), sep)

\* Array.prototype.includes on a list of strings
Member(x, list) == \E i \in DOMAIN list : list[i] = x

RECURSIVE SelectIdx(_, _, _)
\* the indices i of 1..n, in increasing order, for which keep[i]
SelectIdx(keep, i, n) ==
  IF i > n THEN <<>>
  ELSE (IF keep[i] THEN <<i>> ELSE <<>>) \o SelectIdx(keep, i + 1, n)

RECURSIVE Flatten(_)
\* Array.prototype.flat on a list of lists
Flatten(ss) == IF ss = <<>> THEN <<>> ELSE Head(ss) \o Flatten(Tail(ss))

Min2(a, b) == IF a < b THEN a ELSE b

Max2(a, b) == IF a > b THEN a ELSE b

Abs(a) == IF a < 0 THEN -a ELSE a

\* a / b rounded to the nearest integer, halves away from zero (b > 0)
DivRound(a, b) ==
  IF a >= 0 THEN (2 * a + b) \div (2 * b) ELSE -((2 * (-a) + b) \div (2 * b))

RECURSIVE SqrtSearch(_, _, _)
SqrtSearch(n, lo, hi) ==
  IF lo >= hi THEN lo
  ELSE LET mid == (lo + hi + 1) \div 2
       IN  IF mid * mid <= n THEN SqrtSearch(n, mid, hi) ELSE SqrtSearch(n, lo, mid - 1)

\* floor of the square root of n (0 <= n < 2^31)
ISqrt(n) == SqrtSearch(n, 0, 46340)

(***************************************************************************)
(* GEO CLASSIFIER (utils/geo)                                              *)
(*                                                                         *)
(* Coordinates are integers in units of 1e-4 degree (every literal of the  *)
(* source has four decimals).  Distances are integers in units of 1e-3     *)
(* mile.                                                                   *)
(***************************************************************************)

COLUMBIA_ZIPS ==
  << <<"2","1","0","4","4">>, <<"2","1","0","4","5">>, <<"2","1","0","4","6">> >>

COLUMBIA_CENTER == [lat |-> 392037, lng |-> -768610]

COLUMBIA_BOUNDARY ==
  << [lat |-> 392420, lng |-> -768950],
     [lat |-> 392450, lng |-> -768700],
     [lat |-> 392400, lng |-> -768400],
     [lat |-> 392300, lng |-> -768250],
     [lat |-> 392100, lng |-> -768150],
     [lat |-> 391900, lng |-> -768200],
     [lat |-> 391780, lng |-> -768350],
     [lat |-> 391750, lng |-> -768550],
     [lat |-> 391800, lng |-> -768800],
     [lat |-> 391950, lng |-> -768950],
     [lat |-> 392150, lng |-> -769050],
     [lat |-> 392300, lng |-> -769000] >>

MD_CITY_COORDS ==
  << [key |-> <<"c","o","l","u","m","b","i","a">>, lat |-> 392037, lng |-> -768610],
     [key |-> <<"e","l","l","i","c","o","t","t"," ","c","i","t","y">>, lat |-> 392674, lng |-> -767983],
     [key |-> <<"e","l","k","r","i","d","g","e">>, lat |-> 392126, lng |-> -767136],
     [key |-> <<"l","a","u","r","e","l">>, lat |-> 390993, lng |-> -768483],
     [key |-> <<"s","a","v","a","g","e">>, lat |-> 391379, lng |-> -768236],
     [key |-> <<"j","e","s","s","u","p">>, lat |-> 391462, lng |-> -767753],
     [key |-> <<"h","a","n","o","v","e","r">>, lat |-> 391929, lng |-> -767244],
     [key |-> <<"c","l","a","r","k","s","v","i","l","l","e">>, lat |-> 392070, lng |-> -769397],
     [key |-> <<"d","a","y","t","o","n">>, lat |-> 392420, lng |-> -769640],
     [key |-> <<"f","u","l","t","o","n">>, lat |-> 391520, lng |-> -769230],
     [key |-> <<"h","i","g","h","l","a","n","d">>, lat |-> 391751, lng |-> -769569],
     [key |-> <<"w","e","s","t"," ","f","r","i","e","n","d","s","h","i","p">>, lat |-> 392847, lng |-> -769375],
     [key |-> <<"b","a","l","t","i","m","o","r","e">>, lat |-> 392904, lng |-> -766122],
     [key |-> <<"t","o","w","s","o","n">>, lat |-> 394015, lng |-> -766019],
     [key |-> <<"c","a","t","o","n","s","v","i","l","l","e">>, lat |-> 392721, lng |-> -767319],
     [key |-> <<"d","u","n","d","a","l","k">>, lat |-> 392507, lng |-> -765205],
     [key |-> <<"e","s","s","e","x">>, lat |-> 393093, lng |-> -764746],
     [key |-> <<"p","a","r","k","v","i","l","l","e">>, lat |-> 393771, lng |-> -765397],
     [key |-> <<"p","e","r","r","y"," ","h","a","l","l">>, lat |-> 394126, lng |-> -764636],
     [key |-> <<"o","w","i","n","g","s"," ","m","i","l","l","s">>, lat |-> 394197, lng |-> -767708],
     [key |-> <<"p","i","k","e","s","v","i","l","l","e">>, lat |-> 393743, lng |-> -767225],
     [key |-> <<"g","l","e","n"," ","b","u","r","n","i","e">>, lat |-> 391626, lng |-> -766247],
     [key |-> <<"l","i","n","t","h","i","c","u","m">>, lat |-> 392054, lng |-> -766594],
     [key |-> <<"a","r","b","u","t","u","s">>, lat |-> 392365, lng |-> -766922],
     [key |-> <<"h","a","l","e","t","h","o","r","p","e">>, lat |-> 392268, lng |-> -766836],
     [key |-> <<"r","o","s","e","d","a","l","e">>, lat |-> 393204, lng |-> -765155],
     [key |-> <<"m","i","d","d","l","e"," ","r","i","v","e","r">>, lat |-> 393382, lng |-> -764394],
     [key |-> <<"r","a","n","d","a","l","l","s","t","o","w","n">>, lat |-> 393676, lng |-> -767953],
     [key |-> <<"r","e","i","s","t","e","r","s","t","o","w","n">>, lat |-> 394693, lng |-> -768294],
     [key |-> <<"c","o","c","k","e","y","s","v","i","l","l","e">>, lat |-> 394790, lng |-> -766438],
     [key |-> <<"t","i","m","o","n","i","u","m">>, lat |-> 394370, lng |-> -766197],
     [key |-> <<"l","u","t","h","e","r","v","i","l","l","e">>, lat |-> 394215, lng |-> -766264],
     [key |-> <<"w","a","s","h","i","n","g","t","o","n">>, lat |-> 389072, lng |-> -770369],
     [key |-> <<"s","i","l","v","e","r"," ","s","p","r","i","n","g">>, lat |-> 389907, lng |-> -770261],
     [key |-> <<"b","e","t","h","e","s","d","a">>, lat |-> 389847, lng |-> -770947],
     [key |-> <<"r","o","c","k","v","i","l","l","e">>, lat |-> 390840, lng |-> -771528],
     [key |-> <<"g","a","i","t","h","e","r","s","b","u","r","g">>, lat |-> 391434, lng |-> -772014],
     [key |-> <<"g","e","r","m","a","n","t","o","w","n">>, lat |-> 391732, lng |-> -772717],
     [key |-> <<"b","o","w","i","e">>, lat |-> 389428, lng |-> -767302],
     [key |-> <<"c","o","l","l","e","g","e"," ","p","a","r","k">>, lat |-> 389807, lng |-> -769370],
     [key |-> <<"g","r","e","e","n","b","e","l","t">>, lat |-> 389954, lng |-> -768828],
     [key |-> <<"h","y","a","t","t","s","v","i","l","l","e">>, lat |-> 389559, lng |-> -769453],
     [key |-> <<"l","a","n","h","a","m">>, lat |-> 389687, lng |-> -768633],
     [key |-> <<"l","a","r","g","o">>, lat |-> 388976, lng |-> -768303],
     [key |-> <<"u","p","p","e","r"," ","m","a","r","l","b","o","r","o">>, lat |-> 388156, lng |-> -767497],
     [key |-> <<"a","n","n","a","p","o","l","i","s">>, lat |-> 389784, lng |-> -764922],
     [key |-> <<"s","e","v","e","r","n","a"," ","p","a","r","k">>, lat |-> 390704, lng |-> -765683],
     [key |-> <<"s","e","v","e","r","n">>, lat |-> 391371, lng |-> -766983],
     [key |-> <<"o","d","e","n","t","o","n">>, lat |-> 390840, lng |-> -767000],
     [key |-> <<"c","r","o","f","t","o","n">>, lat |-> 390018, lng |-> -766872],
     [key |-> <<"g","a","m","b","r","i","l","l","s">>, lat |-> 390679, lng |-> -766653],
     [key |-> <<"m","i","l","l","e","r","s","v","i","l","l","e">>, lat |-> 390573, lng |-> -766392],
     [key |-> <<"p","a","s","a","d","e","n","a">>, lat |-> 391076, lng |-> -765711],
     [key |-> <<"a","r","n","o","l","d">>, lat |-> 390329, lng |-> -765025],
     [key |-> <<"f","r","e","d","e","r","i","c","k">>, lat |-> 394143, lng |-> -774105],
     [key |-> <<"m","o","u","n","t"," ","a","i","r","y">>, lat |-> 393762, lng |-> -771547],
     [key |-> <<"n","e","w"," ","m","a","r","k","e","t">>, lat |-> 393901, lng |-> -772767],
     [key |-> <<"s","y","k","e","s","v","i","l","l","e">>, lat |-> 393735, lng |-> -769678],
     [key |-> <<"e","l","d","e","r","s","b","u","r","g">>, lat |-> 394039, lng |-> -769519],
     [key |-> <<"w","e","s","t","m","i","n","s","t","e","r">>, lat |-> 395754, lng |-> -769958],
     [key |-> <<"b","e","l"," ","a","i","r">>, lat |-> 395360, lng |-> -763483],
     [key |-> <<"a","b","e","r","d","e","e","n">>, lat |-> 395093, lng |-> -761641],
     [key |-> <<"h","a","v","r","e"," ","d","e"," ","g","r","a","c","e">>, lat |-> 395493, lng |-> -760919],
     [key |-> <<"e","d","g","e","w","o","o","d">>, lat |-> 394187, lng |-> -762944],
     [key |-> <<"j","o","p","p","a">>, lat |-> 394365, lng |-> -763561],
     [key |-> <<"c","o","l","u","m","b","i","a"," ","m","d">>, lat |-> 392037, lng |-> -768610],
     [key |-> <<"o","l","n","e","y">>, lat |-> 391532, lng |-> -770668],
     [key |-> <<"b","u","r","t","o","n","s","v","i","l","l","e">>, lat |-> 391113, lng |-> -769325],
     [key |-> <<"n","o","r","t","h"," ","l","a","u","r","e","l">>, lat |-> 391337, lng |-> -768586],
     [key |-> <<"m","a","p","l","e"," ","l","a","w","n">>, lat |-> 391680, lng |-> -768886],
     [key |-> <<"k","i","n","g","s"," ","c","o","n","t","r","i","v","a","n","c","e">>, lat |-> 391856, lng |-> -768433],
     [key |-> <<"d","o","r","s","e","y">>, lat |-> 391604, lng |-> -767853],
     [key |-> <<"s","c","a","g","g","s","v","i","l","l","e">>, lat |-> 391446, lng |-> -768825],
     [key |-> <<"w","o","o","d","b","i","n","e">>, lat |-> 393340, lng |-> -770675],
     [key |-> <<"l","i","s","b","o","n">>, lat |-> 393273, lng |-> -770600],
     [key |-> <<"c","o","o","k","s","v","i","l","l","e">>, lat |-> 393273, lng |-> -769956],
     [key |-> <<"g","l","e","n","e","l","g">>, lat |-> 392718, lng |-> -769122],
     [key |-> <<"w","o","o","d","s","t","o","c","k">>, lat |-> 393308, lng |-> -768726],
     [key |-> <<"m","a","r","r","i","o","t","t","s","v","i","l","l","e">>, lat |-> 392996, lng |-> -768986] >>

ZIP_COORDS ==
  << [key |-> <<"2","1","0","4","4">>, lat |-> 392128, lng |-> -768812],
     [key |-> <<"2","1","0","4","5">>, lat |-> 392025, lng |-> -768331],
     [key |-> <<"2","1","0","4","6">>, lat |-> 391893, lng |-> -768553],
     [key |-> <<"2","1","0","4","2">>, lat |-> 392674, lng |-> -767983],
     [key |-> <<"2","1","0","4","3">>, lat |-> 392501, lng |-> -767711],
     [key |-> <<"2","1","0","7","5">>, lat |-> 392126, lng |-> -767136],
     [key |-> <<"2","1","0","7","6">>, lat |-> 391929, lng |-> -767244],
     [key |-> <<"2","1","0","2","9">>, lat |-> 392070, lng |-> -769397],
     [key |-> <<"2","1","0","3","6">>, lat |-> 392420, lng |-> -769640],
     [key |-> <<"2","1","1","0","4">>, lat |-> 392996, lng |-> -768986],
     [key |-> <<"2","1","1","6","3">>, lat |-> 393308, lng |-> -768726],
     [key |-> <<"2","1","7","3","8">>, lat |-> 392718, lng |-> -769122],
     [key |-> <<"2","1","7","9","7">>, lat |-> 393340, lng |-> -770675],
     [key |-> <<"2","1","7","9","4">>, lat |-> 393273, lng |-> -770600],
     [key |-> <<"2","0","7","0","7">>, lat |-> 390993, lng |-> -768483],
     [key |-> <<"2","0","7","0","8">>, lat |-> 390760, lng |-> -768417],
     [key |-> <<"2","0","7","2","3">>, lat |-> 391337, lng |-> -768586],
     [key |-> <<"2","0","7","2","4">>, lat |-> 390943, lng |-> -767000],
     [key |-> <<"2","0","7","9","4">>, lat |-> 391462, lng |-> -767753],
     [key |-> <<"2","0","7","6","3">>, lat |-> 391379, lng |-> -768236],
     [key |-> <<"2","1","2","0","1">>, lat |-> 392904, lng |-> -766177],
     [key |-> <<"2","1","2","0","2">>, lat |-> 392960, lng |-> -766005],
     [key |-> <<"2","1","2","0","6">>, lat |-> 393271, lng |-> -765397],
     [key |-> <<"2","1","2","0","7">>, lat |-> 393176, lng |-> -767225],
     [key |-> <<"2","1","2","0","8">>, lat |-> 393743, lng |-> -767225],
     [key |-> <<"2","1","2","0","9">>, lat |-> 393649, lng |-> -766686],
     [key |-> <<"2","1","2","1","0">>, lat |-> 393490, lng |-> -766397],
     [key |-> <<"2","1","2","1","1">>, lat |-> 393260, lng |-> -766397],
     [key |-> <<"2","1","2","1","2">>, lat |-> 393665, lng |-> -766122],
     [key |-> <<"2","1","2","1","3">>, lat |-> 393065, lng |-> -765794],
     [key |-> <<"2","1","2","1","4">>, lat |-> 393493, lng |-> -765622],
     [key |-> <<"2","1","2","1","5">>, lat |-> 393443, lng |-> -766833],
     [key |-> <<"2","1","2","1","6">>, lat |-> 393082, lng |-> -766622],
     [key |-> <<"2","1","2","1","7">>, lat |-> 393082, lng |-> -766394],
     [key |-> <<"2","1","2","1","8">>, lat |-> 393260, lng |-> -766028],
     [key |-> <<"2","1","2","2","7">>, lat |-> 392268, lng |-> -766836],
     [key |-> <<"2","1","2","2","8">>, lat |-> 392721, lng |-> -767319],
     [key |-> <<"2","1","2","2","9">>, lat |-> 392718, lng |-> -766922],
     [key |-> <<"2","1","2","3","0">>, lat |-> 392632, lng |-> -766247],
     [key |-> <<"2","1","2","3","4">>, lat |-> 393771, lng |-> -765397],
     [key |-> <<"2","1","2","3","6">>, lat |-> 393382, lng |-> -764394],
     [key |-> <<"2","1","2","3","7">>, lat |-> 393204, lng |-> -765155],
     [key |-> <<"2","1","2","4","4">>, lat |-> 393176, lng |-> -767869],
     [key |-> <<"2","1","0","6","0">>, lat |-> 391626, lng |-> -766247],
     [key |-> <<"2","1","0","6","1">>, lat |-> 391526, lng |-> -766247],
     [key |-> <<"2","1","1","4","4">>, lat |-> 391371, lng |-> -766983],
     [key |-> <<"2","1","4","0","1">>, lat |-> 389784, lng |-> -764922],
     [key |-> <<"2","1","4","0","3">>, lat |-> 389584, lng |-> -764722],
     [key |-> <<"2","1","1","0","8">>, lat |-> 390573, lng |-> -766392],
     [key |-> <<"2","1","1","1","3">>, lat |-> 390840, lng |-> -767000],
     [key |-> <<"2","1","1","1","4">>, lat |-> 390018, lng |-> -766872],
     [key |-> <<"2","1","0","1","2">>, lat |-> 390329, lng |-> -765025],
     [key |-> <<"2","1","1","2","2">>, lat |-> 391076, lng |-> -765711],
     [key |-> <<"2","1","1","4","6">>, lat |-> 390704, lng |-> -765683],
     [key |-> <<"2","0","9","0","1">>, lat |-> 389907, lng |-> -770261],
     [key |-> <<"2","0","8","1","4">>, lat |-> 389847, lng |-> -770947],
     [key |-> <<"2","0","8","5","0">>, lat |-> 390840, lng |-> -771528],
     [key |-> <<"2","0","8","7","7">>, lat |-> 391434, lng |-> -772014],
     [key |-> <<"2","0","8","7","4">>, lat |-> 391732, lng |-> -772717],
     [key |-> <<"2","0","7","2","0">>, lat |-> 389428, lng |-> -767302],
     [key |-> <<"2","0","7","4","0">>, lat |-> 389807, lng |-> -769370],
     [key |-> <<"2","0","7","7","0">>, lat |-> 389954, lng |-> -768828],
     [key |-> <<"2","0","7","8","3">>, lat |-> 389559, lng |-> -769453],
     [key |-> <<"2","1","7","0","1">>, lat |-> 394143, lng |-> -774105],
     [key |-> <<"2","1","7","7","1">>, lat |-> 393762, lng |-> -771547],
     [key |-> <<"2","1","7","8","4">>, lat |-> 393735, lng |-> -769678],
     [key |-> <<"2","1","1","5","7">>, lat |-> 395754, lng |-> -769958],
     [key |-> <<"2","1","0","4","8">>, lat |-> 394039, lng |-> -769519],
     [key |-> <<"2","1","0","1","4">>, lat |-> 395360, lng |-> -763483],
     [key |-> <<"2","1","0","0","1">>, lat |-> 395093, lng |-> -761641],
     [key |-> <<"2","1","0","7","8">>, lat |-> 395493, lng |-> -760919],
     [key |-> <<"2","1","0","4","0">>, lat |-> 394187, lng |-> -762944] >>

S_columbia == <<"c","o","l","u","m","b","i","a">>

S_md == <<"m","d">>

S_maryland == <<"m","a","r","y","l","a","n","d">>

\* the property names that every object literal inherits from Object.prototype
PrototypeKeys ==
  { <<"c","o","n","s","t","r","u","c","t","o","r">>, <<"_","_","p","r","o","t","o","_","_">>, <<"h","a","s","O","w","n","P","r","o","p","e","r","t","y">>, <<"i","s","P","r","o","t","o","t","y","p","e","O","f">>,
    <<"p","r","o","p","e","r","t","y","I","s","E","n","u","m","e","r","a","b","l","e">>, <<"t","o","L","o","c","a","l","e","S","t","r","i","n","g">>, <<"t","o","S","t","r","i","n","g">>, <<"v","a","l","u","e","O","f">>,
    <<"_","_","d","e","f","i","n","e","G","e","t","t","e","r","_","_">>, <<"_","_","d","e","f","i","n","e","S","e","t","t","e","r","_","_">>, <<"_","_","l","o","o","k","u","p","G","e","t","t","e","r","_","_">>,
    <<"_","_","l","o","o","k","u","p","S","e","t","t","e","r","_","_">> }

\* the value of an inherited property: a function or an object, truthy, with
\* neither lat nor lng
InheritedProperty == [inherited |-> TRUE]

\* the value is one of the coordinate entries of a table
IsPoint(c) == "lat" \in DOMAIN c

\* Record lookup table[key]; <<>> when the key is absent, <<entry>> for an
\* entry of the table, <<InheritedProperty>> for an inherited property
Lookup(table, key) ==
  IF \E i \in DOMAIN table : table[i].key = key
  THEN LET i == CHOOSE i \in DOMAIN table : table[i].key = key
       IN  << [lat |-> table[i].lat, lng |-> table[i].lng] >>
  ELSE IF key \in PrototypeKeys THEN << InheritedProperty >>
  ELSE <<>>

\* \b at the gap before position i of s (between s[i-1] and s[i])
WordBoundary(s, i) ==
  LET before == i > 1 /\ i - 1 <= Len(s) /\ IsWordChar(s[i - 1])
      after  == i >= 1 /\ i <= Len(s) /\ IsWordChar(s[i])
  IN  before # after

AllDigits(s, i, n) ==
  /\ i >= 1
  /\ i + n - 1 <= Len(s)
  /\ \A k \in i..(i + n - 1) : IsDigit(s[k])

\* /\b(\d{5})(?:-\d{4})?\b/ matches at position i
ZipMatchAt(s, i) ==
  /\ WordBoundary(s, i)
  /\ AllDigits(s, i, 5)
  /\ \/ /\ i + 5 <= Len(s)
        /\ s[i + 5] = "-"
        /\ AllDigits(s, i + 6, 4)
        /\ WordBoundary(s, i + 10)
     \/ WordBoundary(s, i + 5)

\* extractZip: the first match's 5 digits as <<zip>>, <<>> for null
extractZip(address) ==
  IF \E i \in 1..Len(address) : ZipMatchAt(address, i)
  THEN LET i == CHOOSE i \in 1..Len(address) :
                  ZipMatchAt(address, i) /\ \A j \in 1..(i - 1) : ~ZipMatchAt(address, j)
       IN  << SubSeq(address, i, i + 4) >>
  ELSE <<>>

\* keys sorted by length descending; keys of equal length keep their order
\* (Array.prototype.sort is stable)
SortByLengthDesc(keys) ==
  LET rank(i) == Cardinality({ j \in DOMAIN keys :
                     \/ Len(keys[j]) > Len(keys[i])
                     \/ Len(keys[j]) = Len(keys[i]) /\ j < i }) + 1
  IN  [p \in DOMAIN keys |-> keys[CHOOSE i \in DOMAIN keys : rank(i) = p]]

\* Object.keys(MD_CITY_COORDS).sort((a, b) => b.length - a.length)
knownCities == SortByLengthDesc([i \in DOMAIN MD_CITY_COORDS |-> MD_CITY_COORDS[i].key])

RECURSIVE RemoveStateWords(_, _)
\* .replace(/\b(md|maryland)\b/gi, '') from position i on
RemoveStateWords(s, i) ==
  IF i > Len(s) THEN <<>>
  ELSE LET low == ToLowerCase(s)
           hit(w) == /\ MatchAt(low, w, i)
                     /\ WordBoundary(s, i)
                     /\ WordBoundary(s, i + Len(w))
       IN  IF hit(S_md) THEN RemoveStateWords(s, i + 2)
           ELSE IF hit(S_maryland) THEN RemoveStateWords(s, i + 8)
           ELSE <<s[i]>> \o RemoveStateWords(s, i + 1)

RECURSIVE RemoveFiveDigits(_, _)
\* .replace(/\d{5}/g, '') from position i on
RemoveFiveDigits(s, i) ==
  IF i > Len(s) THEN <<>>
  ELSE IF AllDigits(s, i, 5) THEN RemoveFiveDigits(s, i + 5)
  ELSE <<s[i]>> \o RemoveFiveDigits(s, i + 1)

\* extractCity: <<city>> or <<>> for null
extractCity(address) ==
  LET lower == Trim(ToLowerCase(address))
      hits  == SelectIdx([i \in DOMAIN knownCities |-> Includes(lower, knownCities[i])],
                         1, Len(knownCities))
      raw   == Split(address, <<",">>)
      parts == [i \in DOMAIN raw |-> ToLowerCase(Trim(raw[i]))]
      cand(i) == Trim(RemoveFiveDigits(RemoveStateWords(parts[i], 1), 1))
      ok    == SelectIdx([i \in DOMAIN parts |->
                            i >= 2 /\ cand(i) # <<>> /\ Lookup(MD_CITY_COORDS, cand(i)) # <<>>],
                         1, Len(parts))
  IN  IF hits # <<>> THEN << knownCities[hits[1]] >>
      ELSE IF Len(parts) >= 2 /\ ok # <<>> THEN << cand(ok[1]) >>
      ELSE <<>>

\* isPointInPolygon: even-odd ray casting; x is lat and y is lng as in the source.
\* The comparison px < (xj - xi) * (py - yi) / (yj - yi) + xi is evaluated exactly,
\* multiplied through by (yj - yi), which is not 0 when the first conjunct holds.
EdgeCrosses(point, pi, pj) ==
  LET xi == pi.lat  yi == pi.lng
      xj == pj.lat  yj == pj.lng
      d  == yj - yi
  IN  /\ (yi > point.lng) # (yj > point.lng)
      /\ IF d > 0
         THEN (point.lat - xi) * d < (xj - xi) * (point.lng - yi)
         ELSE (point.lat - xi) * d > (xj - xi) * (point.lng - yi)

\* "if (intersect) inside = true": set on a crossing instead of toggled
isPointInPolygonMutant(point, polygon) ==
  LET n == Len(polygon)
      prev(i) == IF i = 1 THEN n ELSE i - 1
  IN  \E i \in 1..n : EdgeCrosses(point, polygon[i], polygon[prev(i)])

isPointInPolygon(point, polygon) ==
  LET n == Len(polygon)
      prev(i) == IF i = 1 THEN n ELSE i - 1
      crossings == { i \in 1..n : EdgeCrosses(point, polygon[i], polygon[prev(i)]) }
  IN  Cardinality(crossings) % 2 = 1

\* Earth's radius in miles
EarthRadiusMiles == 3959

\* Math.sin(toRad(d) / 2) for a difference d in 1e-5 degree, scaled by 4e6.
\* sin x = x - x^3/6 + ...; for |x| < 0.01 the cubic term is below the
\* resolution, so the linear term is the value: 4e6 * pi / 36e6 = 0.34906585.
SinHalf(d) == DivRound(d * 3491 - DivRound(d * 3415, 10000), 10000)

\* Math.cos(toRad(lat)) for lat in 1e-4 degree, scaled by 1e4:
\* 1 - x^2/2 + x^4/24 - x^6/720 with x in radians (scaled by 1e4)
CosDeg(lat) ==
  LET x  == DivRound(lat * 1745, 100000)
      x2 == DivRound(x * x, 10000)
      x4 == DivRound(x2 * x2, 10000)
      x6 == DivRound(x4 * x2, 10000)
  IN  10000 - DivRound(x2, 2) + DivRound(x4, 24) - DivRound(x6, 720)

\* haversineDistance of two points given in 1e-5 degree, in 1e-3 mile.
\* h (scaled by 16e12) is kept as its square root's argument; atan2(sqrt h,
\* sqrt(1 - h)) = asin(sqrt h) = sqrt h up to h/6 < 1e-5 for the distances
\* of the gazetteer.
haversineDistance(a, b) ==
  LET sinDLat == SinHalf(b.lat - a.lat)
      sinDLng == SinHalf(b.lng - a.lng)
      cosA    == CosDeg(DivRound(a.lat, 10))
      cosB    == CosDeg(DivRound(b.lat, 10))
      h       == sinDLat * sinDLat
                 + DivRound(sinDLng * cosA, 10000) * DivRound(sinDLng * cosB, 10000)
  IN  DivRound(EarthRadiusMiles * 2 * ISqrt(h), 4000)

\* distanceToSegment: p, a, b in 1e-4 degree; the closest point is computed
\* in 1e-5 degree
distanceToSegment(p, a, b) ==
  LET dx   == b.lat - a.lat
      dy   == b.lng - a.lng
      p5   == [lat |-> 10 * p.lat, lng |-> 10 * p.lng]
      a5   == [lat |-> 10 * a.lat, lng |-> 10 * a.lng]
      b5   == [lat |-> 10 * b.lat, lng |-> 10 * b.lng]
      num  == (p.lat - a.lat) * dx + (p.lng - a.lng) * dy
      den  == dx * dx + dy * dy
  IN  IF dx = 0 /\ dy = 0 THEN haversineDistance(p5, a5)
      ELSE IF num <= 0 THEN haversineDistance(p5, a5)       \* t clamped to 0
      ELSE IF num >= den THEN haversineDistance(p5, b5)     \* t clamped to 1
      ELSE haversineDistance(p5, [lat |-> a5.lat + DivRound(10 * num * dx, den),
                                  lng |-> a5.lng + DivRound(10 * num * dy, den)])

RECURSIVE MinOver(_, _, _, _)
MinOver(point, polygon, i, minDist) ==
  IF i > Len(polygon) THEN minDist
  ELSE LET j    == (i % Len(polygon)) + 1
           dist == distanceToSegment(point, polygon[i], polygon[j])
       IN  MinOver(point, polygon, i + 1,
                   IF minDist = <<>> \/ dist < minDist[1] THEN <<dist>> ELSE minDist)

\* distanceToPolygonBorder: the minimum over the polygon's edges (the
\* polygon is not empty, so the initial Infinity is always replaced)
distanceToPolygonBorder(point, polygon) == MinOver(point, polygon, 1, <<>>)[1]

\* no address is geocoded
geocodeAddressMutant(address) == <<>>

\* geocodeAddress: <<point>> or <<>> for null
geocodeAddress(address) ==
  LET zip   == extractZip(address)
      city  == extractCity(address)
      lower == ToLowerCase(address)
  IN  IF zip # <<>> /\ Lookup(ZIP_COORDS, zip[1]) # <<>> THEN Lookup(ZIP_COORDS, zip[1])
      ELSE IF city # <<>> /\ Lookup(MD_CITY_COORDS, city[1]) # <<>>
           THEN Lookup(MD_CITY_COORDS, city[1])
      ELSE IF /\ Includes(lower, S_columbia)
              /\ \/ Includes(lower, S_md)
                 \/ Includes(lower, S_maryland)
                 \/ \E z \in Range(COLUMBIA_ZIPS) : Includes(lower, z)
           THEN << COLUMBIA_CENTER >>
      ELSE <<>>

\* Math.round(distance * 10) / 10 on a distance in 1e-3 mile
RoundTenth(d) == 100 * DivRound(d, 100)

ColumbiaAnalysis(res, status, dist, conf, geo) ==
  [isResident |-> res, residencyStatus |-> status, distanceFromBorder |-> dist,
   confidence |-> conf, geocoded |-> geo]

BlankResultMutant == ColumbiaAnalysis(FALSE, "Non-Resident", <<>>, "low", FALSE)

\* the result for an empty or blank address
BlankResult == ColumbiaAnalysis(FALSE, "Unknown", <<>>, "low", FALSE)

\* the result of the ZIP rule, of the name rule and of a point inside the boundary
ResidentResult == ColumbiaAnalysis(TRUE, "Resident", <<0>>, "high", TRUE)

\* a result of medium confidence for an address that was not geocoded
StateOnlyResultMutant == ColumbiaAnalysis(FALSE, "Non-Resident", <<>>, "medium", FALSE)

\* the results for an address that cannot be geocoded
StateOnlyResult == ColumbiaAnalysis(FALSE, "Non-Resident", <<>>, "low", FALSE)

NoGeocodeResult == ColumbiaAnalysis(FALSE, "Unknown", <<>>, "low", FALSE)

\* !address || address.trim() === ''
IsBlank(address) == Trim(address) = <<>>

\* zip && COLUMBIA_ZIPS.includes(zip)
ZipRule(address) ==
  LET zip == extractZip(address)
  IN  zip # <<>> /\ Member(zip[1], COLUMBIA_ZIPS)

\* the "Columbia, MD" name rule of analyzeColumbia
NameRule(lower) ==
  \/ /\ Includes(lower, S_columbia)
     /\ Includes(lower, S_md) \/ Includes(lower, S_maryland)
  \/ /\ Includes(lower, S_columbia \o <<",">>)
     /\ ~Includes(lower, S_columbia \o <<",", " ", "s", "c">>)
     /\ ~Includes(lower, S_columbia \o <<",", " ", "m", "o">>)

\* the distanceFromBorder Infinity (a number is <<d>>, null is <<>>)
InfiniteDistance == <<"Infinity", "Infinity">>

\* the result for coords that have neither lat nor lng: every crossing test
\* of isPointInPolygon compares with undefined and is false, every segment
\* distance is NaN and never replaces the initial Infinity of
\* distanceToPolygonBorder, and Math.round(Infinity * 10) / 10 is Infinity
NoPointResult == ColumbiaAnalysis(FALSE, "Non-Resident", InfiniteDistance, "high", TRUE)

\* the point of a geocoded address classified against the boundary
ClassifyPoint(coords) ==
  IF ~IsPoint(coords) THEN NoPointResult
  ELSE IF isPointInPolygon(coords, COLUMBIA_BOUNDARY)
  THEN ResidentResult
  ELSE ColumbiaAnalysis(FALSE, "Non-Resident",
                        << RoundTenth(distanceToPolygonBorder(coords, COLUMBIA_BOUNDARY)) >>,
                        "high", TRUE)

\* analyzeColumbia; distanceFromBorder is <<>> for null, <<d>> for a number d
\* and InfiniteDistance for Infinity
analyzeColumbia(address) ==
  LET lower  == Trim(ToLowerCase(address))
      coords == geocodeAddress(address)
  IN  IF IsBlank(address) THEN BlankResult
      ELSE IF ZipRule(address) THEN ResidentResult
      ELSE IF NameRule(lower) THEN ResidentResult
      ELSE IF coords = <<>>
      THEN IF Includes(lower, S_md) \/ Includes(lower, S_maryland)
           THEN StateOnlyResult
           ELSE NoGeocodeResult
      ELSE ClassifyPoint(coords[1])

\* the local variable coords of analyzeColumbia: <<>> when the function
\* returned before geocoding or geocoding failed
CoordsOf(address) ==
  IF IsBlank(address) \/ ZipRule(address) \/ NameRule(Trim(ToLowerCase(address)))
  THEN <<>>
  ELSE geocodeAddress(address)

(***************************************************************************)
(* NUMBERS                                                                 *)
(*                                                                         *)
(* A JavaScript number is [k |-> "fin", v |-> n] for the finite value      *)
(* n / FxScale, [k |-> "inf", v |-> 1 or -1] for +Infinity and -Infinity,  *)
(* or [k |-> "nan", v |-> 0].  Products and quotients are rounded to the   *)
(* nearest multiple of 1 / FxScale.                                        *)
(***************************************************************************)

\* resolution of the fixed-point values
FxScale == 1000

Fin(v) == [k |-> "fin", v |-> v]

\* the integer n as a number
Num(n) == Fin(n * FxScale)

NaN == [k |-> "nan", v |-> 0]

PosInf == [k |-> "inf", v |-> 1]

NegInf == [k |-> "inf", v |-> -1]

IsNaN(x) == x.k = "nan"

IsFin(x) == x.k = "fin"

IsInf(x) == x.k = "inf"

Sign(n) == IF n > 0 THEN 1 ELSE IF n < 0 THEN -1 ELSE 0

\* unary minus
NNeg(x) == IF IsNaN(x) THEN NaN ELSE [k |-> x.k, v |-> -x.v]

\* x + y
NAdd(x, y) ==
  IF IsNaN(x) \/ IsNaN(y) THEN NaN
  ELSE IF IsInf(x) /\ IsInf(y) THEN (IF x.v = y.v THEN x ELSE NaN)
  ELSE IF IsInf(x) THEN x
  ELSE IF IsInf(y) THEN y
  ELSE Fin(x.v + y.v)

\* x - y
NSub(x, y) == NAdd(x, NNeg(y))

\* x * y
NMul(x, y) ==
  IF IsNaN(x) \/ IsNaN(y) THEN NaN
  ELSE IF IsInf(x) \/ IsInf(y)
       THEN (IF x.v = 0 \/ y.v = 0 THEN NaN
             ELSE [k |-> "inf", v |-> Sign(x.v) * Sign(y.v)])
  ELSE Fin(DivRound(x.v * y.v, FxScale))

\* a / b for integers a and b > 0 in units of 1 / FxScale, rounded; a large
\* divisor is reduced first so that the intermediate product stays in range
FxQuot(a, b) ==
  IF b < 1000000 /\ Abs(a) < 1000000
  THEN DivRound(a * FxScale, b)
  ELSE DivRound(a, Max2(1, DivRound(b, FxScale)))

\* x / y
NDiv(x, y) ==
  IF IsNaN(x) \/ IsNaN(y) THEN NaN
  ELSE IF IsInf(x) THEN (IF IsInf(y) THEN NaN
                         ELSE [k |-> "inf", v |-> x.v * (IF y.v < 0 THEN -1 ELSE 1)])
  ELSE IF IsInf(y) THEN Fin(0)
  ELSE IF y.v = 0 THEN (IF x.v = 0 THEN NaN ELSE [k |-> "inf", v |-> Sign(x.v)])
  ELSE IF y.v > 0 THEN Fin(FxQuot(x.v, y.v))
  ELSE Fin(FxQuot(-x.v, -y.v))

\* x < y (false when either is NaN)
NLt(x, y) ==
  IF IsNaN(x) \/ IsNaN(y) THEN FALSE
  ELSE IF IsInf(x) THEN x.v < 0 /\ ~(IsInf(y) /\ y.v < 0)
  ELSE IF IsInf(y) THEN y.v > 0
  ELSE x.v < y.v

\* x > y, x >= y, x === y
NGt(x, y) == NLt(y, x)

NEq(x, y) == ~IsNaN(x) /\ ~IsNaN(y) /\ x = y

NGe(x, y) == NGt(x, y) \/ NEq(x, y)

\* Math.abs
NAbs(x) == IF IsNaN(x) THEN NaN ELSE [k |-> x.k, v |-> Abs(x.v)]

\* Math.min and Math.max of two numbers (NaN when either is NaN)
NMin(x, y) == IF IsNaN(x) \/ IsNaN(y) THEN NaN ELSE IF NLt(y, x) THEN y ELSE x

NMax(x, y) == IF IsNaN(x) \/ IsNaN(y) THEN NaN ELSE IF NGt(y, x) THEN y ELSE x

\* Math.round: to the nearest integer, halves towards +Infinity
NRound(x) ==
  IF IsFin(x) THEN Fin(((2 * x.v + FxScale) \div (2 * FxScale)) * FxScale) ELSE x

\* Math.sqrt
NSqrt(x) ==
  IF IsNaN(x) THEN NaN
  ELSE IF IsInf(x) THEN (IF x.v > 0 THEN x ELSE NaN)
  ELSE IF x.v < 0 THEN NaN
  ELSE Fin(ISqrt(x.v * FxScale))

RECURSIVE NSumFrom(_, _, _)
\* xs.reduce((a, b) => a + b, acc) from index i on
NSumFrom(xs, i, acc) ==
  IF i > Len(xs) THEN acc ELSE NSumFrom(xs, i + 1, NAdd(acc, xs[i]))

NSum(xs) == NSumFrom(xs, 1, Fin(0))

\* is an integer
IsInteger(x) == IsFin(x) /\ x.v % FxScale = 0

RECURSIVE ExpNegInt(_)
\* e^(-n) for an integer n >= 0, in units of 1 / FxScale
ExpNegInt(n) ==
  IF n = 0 THEN FxScale
  ELSE IF n > 24 THEN 0
  ELSE DivRound(ExpNegInt(n - 1) * DivRound(FxScale * 36788, 100000), FxScale)

\* e^(-f / FxScale) for 0 <= f < FxScale: the Taylor series to the 6th power
ExpNegFrac(f) ==
  LET f2 == DivRound(f * f, FxScale)
      f3 == DivRound(f2 * f, FxScale)
      f4 == DivRound(f3 * f, FxScale)
      f5 == DivRound(f4 * f, FxScale)
      f6 == DivRound(f5 * f, FxScale)
  IN  FxScale - f + DivRound(f2, 2) - DivRound(f3, 6) + DivRound(f4, 24)
      - DivRound(f5, 120) + DivRound(f6, 720)

\* Math.exp(-x / FxScale) for x >= 0, in units of 1 / FxScale
ExpNeg(x) == DivRound(ExpNegInt(x \div FxScale) * ExpNegFrac(x % FxScale), FxScale)

\* "hash = hash & hash" style wrap of (31 * h + c) to a signed 32-bit integer,
\* computed on 16-bit halves
HashStep(h, c) ==
  LET lo  == h % 65536
      hi  == ((h - lo) \div 65536) % 65536
      t   == 31 * lo + c
      lo2 == t % 65536
      hi2 == (31 * hi + (t \div 65536)) % 65536
  IN  IF hi2 >= 32768 THEN (hi2 - 65536) * 65536 + lo2 ELSE hi2 * 65536 + lo2

RECURSIVE HashFrom(_, _, _)
HashFrom(s, i, h) ==
  IF i > Len(s) THEN h ELSE HashFrom(s, i + 1, HashStep(h, CharCode(s[i])))

\* the deterministic string hash of encodeValue
StringHash(s) == HashFrom(s, 1, 0)

(***************************************************************************)
(* VALUE PARSING                                                           *)
(***************************************************************************)

RECURSIVE DigitsLen(_, _)
\* the number of consecutive digits of s from position i on
DigitsLen(s, i) ==
  IF i <= Len(s) /\ IsDigit(s[i]) THEN 1 + DigitsLen(s, i + 1) ELSE 0

RECURSIVE DigitsValue(_, _, _, _)
\* the decimal value of the n digits of s that start at position i
DigitsValue(s, i, n, acc) ==
  IF n = 0 THEN acc ELSE DigitsValue(s, i + 1, n - 1, 10 * acc + DigitVal(s[i]))

\* s is a non-empty string of digits only
AllDigitString(s) == Len(s) >= 1 /\ DigitsLen(s, 1) = Len(s)

\* s is a non-empty string of \w characters only
AllWordString(s) == Len(s) >= 1 /\ \A i \in DOMAIN s : IsWordChar(s[i])

\* the fraction 0.d1d2d3 of the digits that follow a decimal point at
\* position i - 1, in units of 1 / FxScale (digits after the third are dropped)
FractionValue(s, i) ==
  LET n == Min2(3, DigitsLen(s, i))
      v == DigitsValue(s, i, n, 0)
      p == IF n = 0 THEN 1 ELSE IF n = 1 THEN 10 ELSE IF n = 2 THEN 100 ELSE 1000
  IN  DivRound(v * FxScale, p)

\* the unsigned part of parseFloat: Infinity, digits, digits.digits or .digits
\* read from position i on; NaN when none of them starts there.  The strings of
\* the model carry no exponent part.
ParseUnsigned(s, i) ==
  LET n == DigitsLen(s, i)
      dot == i + n <= Len(s) /\ s[i + n] = "."
      m == IF dot THEN DigitsLen(s, i + n + 1) ELSE 0
  IN  IF MatchAt(s, <<"I","n","f","i","n","i","t","y">>, i) THEN PosInf
      ELSE IF n = 0 /\ m = 0 THEN NaN
      ELSE Fin(DigitsValue(s, i, n, 0) * FxScale
               + (IF m > 0 THEN FractionValue(s, i + n + 1) ELSE 0))

\* parseFloat: leading white space, an optional sign, then the longest numeric
\* prefix; the rest of the string is ignored
parseFloat(value) ==
  LET s == TrimStart(value)
  IN  IF s = <<>> THEN NaN
      ELSE IF s[1] = "-" THEN NNeg(ParseUnsigned(s, 2))
      ELSE IF s[1] = "+" THEN ParseUnsigned(s, 2)
      ELSE ParseUnsigned(s, 1)

\* days from 1970-01-01 to the civil date y-m-d
DaysFromCivil(y, m, d) ==
  LET yy  == IF m <= 2 THEN y - 1 ELSE y
      era == yy \div 400
      yoe == yy - era * 400
      mp  == IF m > 2 THEN m - 3 ELSE m + 9
      doy == ((153 * mp + 2) \div 5) + d - 1
      doe == yoe * 365 + (yoe \div 4) - (yoe \div 100) + doy
  IN  era * 146097 + doe - 719468

\* the number of clock ticks in a day.  The source counts milliseconds
\* (1000 * 60 * 60 * 24 of them in a day); the model counts coarser ticks.
TicksPerDay == 4

\* the number of days of month m of year y
DaysInMonth(y, m) ==
  IF m = 2
  THEN (IF (y % 4 = 0 /\ y % 100 # 0) \/ y % 400 = 0 THEN 29 ELSE 28)
  ELSE IF m \in {4, 6, 9, 11} THEN 30 ELSE 31

\* ^\d{4}-\d{2}-\d{2}$
IsIsoDate(s) ==
  /\ Len(s) = 10
  /\ DigitsLen(s, 1) = 4 /\ s[5] = "-"
  /\ DigitsLen(s, 6) = 2 /\ s[8] = "-"
  /\ DigitsLen(s, 9) = 2

\* Date.parse: the time stamp of midnight UTC of an ISO date YYYY-MM-DD, NaN
\* for a month or day out of range and for every other string.  The ISO form
\* is the only form of date among the values of the model; its other values
\* hold no digit next to a word, which is what the non-ISO fallback parsers of
\* the JavaScript engines need to find a date.
DateParse(s) ==
  IF IsIsoDate(s)
  THEN LET y == DigitsValue(s, 1, 4, 0)
           m == DigitsValue(s, 6, 2, 0)
           d == DigitsValue(s, 9, 2, 0)
       IN  IF m \in 1..12 /\ d \in 1..DaysInMonth(y, m)
           THEN Num(DaysFromCivil(y, m, d) * TicksPerDay)
           ELSE NaN
  ELSE NaN

\* ^\d{1,2}<sep>\d{1,2}<sep>\d{2,4}$
IsNumericDate(s, sep) ==
  LET parts == Split(s, <<sep>>)
  IN  /\ Len(parts) = 3
      /\ AllDigitString(parts[1]) /\ Len(parts[1]) \in 1..2
      /\ AllDigitString(parts[2]) /\ Len(parts[2]) \in 1..2
      /\ AllDigitString(parts[3]) /\ Len(parts[3]) \in 2..4

\* ^\w+ \d{1,2},? \d{4}$
IsMonthDayYear(s) ==
  LET parts == Split(s, <<" ">>)
  IN  /\ Len(parts) = 3
      /\ AllWordString(parts[1])
      /\ LET p == parts[2]
             q == IF p # <<>> /\ p[Len(p)] = "," THEN SubSeq(p, 1, Len(p) - 1) ELSE p
         IN  AllDigitString(q) /\ Len(q) \in 1..2
      /\ AllDigitString(parts[3]) /\ Len(parts[3]) = 4

\* ^\d{1,2} \w+ \d{4}$
IsDayMonthYear(s) ==
  LET parts == Split(s, <<" ">>)
  IN  /\ Len(parts) = 3
      /\ AllDigitString(parts[1]) /\ Len(parts[1]) \in 1..2
      /\ AllWordString(parts[2])
      /\ AllDigitString(parts[3]) /\ Len(parts[3]) = 4

\* datePatterns.some(p => p.test(trimmed))
MatchesDatePattern(s) ==
  \/ IsIsoDate(s)
  \/ IsNumericDate(s, "/")
  \/ IsNumericDate(s, "-")
  \/ IsMonthDayYear(s)
  \/ IsDayMonthYear(s)

RECURSIVE CountIf(_, _)
\* values.filter(keep).length for keep given per index
CountIf(keep, n) ==
  IF n = 0 THEN 0 ELSE (IF keep[n] THEN 1 ELSE 0) + CountIf(keep, n - 1)

\* values.filter(v => v && v.trim() !== '')
NonEmpty(values) ==
  LET keep == Tuple([i \in DOMAIN values |-> Trim(values[i]) # <<>>])
      idx == SelectIdx(keep, 1, Len(values))
  IN  Tuple([k \in DOMAIN idx |-> values[idx[k]]])

\* (count / total) > 0.7
MoreThan70Percent(count, total) == 10 * count > 7 * total

\* the test of isDateColumn on one trimmed value
LooksLikeDate(trimmed) ==
  \/ MatchesDatePattern(trimmed)
  \/ (~IsNaN(DateParse(trimmed)) /\ Len(trimmed) > 6)

\* nonEmpty.filter(v => ...).length of isDateColumn
DateCount(nonEmpty) ==
  CountIf(Tuple([i \in DOMAIN nonEmpty |-> LooksLikeDate(Trim(nonEmpty[i]))]),
          Len(nonEmpty))

\* isDateColumn after const nonEmpty = values.filter(...)
MostlyDates(nonEmpty) ==
  IF Len(nonEmpty) = 0 THEN FALSE
  ELSE MoreThan70Percent(DateCount(nonEmpty), Len(nonEmpty))

isDateColumn(values) == MostlyDates(NonEmpty(values))

\* new Set(nonEmpty.map(v => v.toLowerCase().trim())).size
LowerUniqueCount(values) ==
  Cardinality({ Trim(ToLowerCase(v)) : v \in Range(NonEmpty(values)) })

\* the name test of isBinaryGender
NamesGender(lower) == Includes(lower, <<"g","e","n","d","e","r">>) \/ Includes(lower, <<"s","e","x">>)

isBinaryGender(colName, values) ==
  IF ~NamesGender(ToLowerCase(colName)) THEN FALSE
  ELSE LowerUniqueCount(values) = 2

\* the name test of isBinaryParental
NamesParental(lower) ==
  \/ Includes(lower, <<"p","a","r","e","n","t">>) \/ Includes(lower, <<"p","a","r","e","n","t","a","l">>)
  \/ Includes(lower, <<"c","h","i","l","d","r","e","n">>) \/ Includes(lower, <<"k","i","d","s">>)

isBinaryParental(colName, values) ==
  IF ~NamesParental(ToLowerCase(colName)) THEN FALSE
  ELSE LowerUniqueCount(values) = 2

boolValues ==
  << <<"y","e","s">>, <<"n","o">>, <<"t","r","u","e">>, <<"f","a","l","s","e">>, <<"1">>, <<"0">>, <<"y">>, <<"n">>,
     <<"a","c","t","i","v","e">>, <<"i","n","a","c","t","i","v","e">> >>

\* nonEmpty.filter(v => boolValues.includes(v.toLowerCase().trim())).length
BoolCount(nonEmpty) ==
  CountIf(Tuple([i \in DOMAIN nonEmpty |->
                   Member(Trim(ToLowerCase(nonEmpty[i])), boolValues)]),
          Len(nonEmpty))

\* nonEmpty.filter(v => !isNaN(parseFloat(v))).length
NumCount(nonEmpty) ==
  CountIf(Tuple([i \in DOMAIN nonEmpty |-> ~IsNaN(parseFloat(nonEmpty[i]))]),
          Len(nonEmpty))

\* the tests of detectColumnType on the column's name, once the binary and
\* date tests have failed
TypeByName(lower, nonEmpty) ==
  IF \/ lower = <<"a","g","e">> \/ Includes(lower, <<"_","a","g","e">>) \/ Includes(lower, <<"a","g","e","_">>)
  THEN "age"
  ELSE IF \/ Includes(lower, <<"d","i","s","t","a","n","c","e">>) \/ Includes(lower, <<"d","i","s","t","_">>)
          \/ Includes(lower, <<"_","m","i">>) \/ Includes(lower, <<"m","i","l","e","s">>)
       THEN "distance"
  ELSE IF Len(nonEmpty) > 0 /\ MoreThan70Percent(BoolCount(nonEmpty), Len(nonEmpty))
       THEN "boolean"
  ELSE IF Len(nonEmpty) > 0 /\ MoreThan70Percent(NumCount(nonEmpty), Len(nonEmpty))
       THEN "numeric"
  ELSE "categorical"

\* days_since for a date column named for a visit, date for any other
DateType(lower) ==
  IF \/ Includes(lower, <<"v","i","s","i","t">>) \/ Includes(lower, <<"l","a","s","t">>)
     \/ Includes(lower, <<"r","e","c","e","n","t">>) \/ Includes(lower, <<"a","c","t","i","v","i","t","y">>)
  THEN "days_since" ELSE "date"

\* detectColumnType returning categorical for every column without values
detectColumnTypeMutant(colName, values) ==
  IF NonEmpty(values) = <<>> THEN "categorical"
  ELSE IF isBinaryGender(colName, values) THEN "binary_gender"
  ELSE IF isBinaryParental(colName, values) THEN "binary_parental"
  ELSE IF isDateColumn(values) THEN DateType(ToLowerCase(colName))
  ELSE TypeByName(ToLowerCase(colName), NonEmpty(values))

detectColumnType(colName, values) ==
  IF isBinaryGender(colName, values) THEN "binary_gender"
  ELSE IF isBinaryParental(colName, values) THEN "binary_parental"
  ELSE IF isDateColumn(values) THEN DateType(ToLowerCase(colName))
  ELSE TypeByName(ToLowerCase(colName), NonEmpty(values))

(***************************************************************************)
(* VALUE ENCODING                                                          *)
(***************************************************************************)

\* dateToDaysSince, with the reading of the clock (Date.now()) as now
\* Math.max(0, Math.round((now - ts) / (1000 * 60 * 60 * 24))), 999 when ts is NaN
DaysSince(ts, now) ==
  IF IsNaN(ts) THEN Num(999)
  ELSE NMax(Num(0), NRound(NDiv(NSub(now, ts), Num(TicksPerDay))))

dateToDaysSince(value, now) ==
  IF Trim(value) = <<>> THEN Num(999) ELSE DaysSince(DateParse(Trim(value)), now)

\* !isNaN(ts) ? ts : 0
OrZero(ts) == IF ~IsNaN(ts) THEN ts ELSE Num(0)

parseDate(value) ==
  IF Trim(value) = <<>> THEN Num(0) ELSE OrZero(DateParse(Trim(value)))

\* the boolean, gender and parental words of encodeValue, then the string hash
EncodeWord(value, lower) ==
  IF Member(lower, << <<"y","e","s">>, <<"t","r","u","e">>, <<"1">>, <<"y">>, <<"a","c","t","i","v","e">> >>) THEN Num(1)
  ELSE IF Member(lower, << <<"n","o">>, <<"f","a","l","s","e">>, <<"0">>, <<"n">>, <<"i","n","a","c","t","i","v","e">> >>) THEN Num(0)
  ELSE IF Member(lower, << <<"m","a","l","e">>, <<"m">> >>) THEN Num(1)
  ELSE IF Member(lower, << <<"f","e","m","a","l","e">>, <<"f">> >>) THEN Num(0)
  ELSE IF Member(lower, << <<"p","a","r","e","n","t">>, <<"y","e","s">> >>) THEN Num(1)
  ELSE IF Member(lower, << <<"n","o","n","-","p","a","r","e","n","t">>, <<"n","o","n"," ","p","a","r","e","n","t">>, <<"n","o","n","p","a","r","e","n","t">>,
                           <<"n","o">>, <<"n","o","n","e">>, <<"c","h","i","l","d","l","e","s","s">> >>)
       THEN Num(0)
  ELSE Num(StringHash(value))

\* const num = parseFloat(value); if (!isNaN(num)) return num; and the rest
EncodeParsed(value, num) ==
  IF ~IsNaN(num) THEN num ELSE EncodeWord(value, Trim(ToLowerCase(value)))

\* encodeValue with the days-since conversion applied to date columns as well
encodeValueMutant(value, colType, now) ==
  IF value = <<>> THEN Num(0)
  ELSE IF colType = "days_since" THEN dateToDaysSince(value, now)
  ELSE IF colType = "date" THEN dateToDaysSince(value, now)
  ELSE EncodeParsed(value, parseFloat(value))

encodeValue(value, colType, now) ==
  IF value = <<>> THEN Num(0)
  ELSE IF colType = "days_since" THEN dateToDaysSince(value, now)
  ELSE IF colType = "date" THEN parseDate(value)
  ELSE EncodeParsed(value, parseFloat(value))

(***************************************************************************)
(* DATA PREPROCESSING                                                      *)
(*                                                                         *)
(* A record is a function from column names to values; a column that the   *)
(* record does not have reads as undefined.                                *)
(***************************************************************************)

\* row[col] || ''
OrEmpty(row, col) == IF col \in DOMAIN row THEN row[col] ELSE <<>>

RECURSIVE DistinctFrom(_, _, _)
\* Array.from(new Set(xs)): the distinct elements of xs in first-seen order
DistinctFrom(xs, i, acc) ==
  IF i > Len(xs) THEN acc
  ELSE DistinctFrom(xs, i + 1, IF Member(xs[i], acc) THEN acc ELSE Append(acc, xs[i]))

Distinct(xs) == DistinctFrom(xs, 1, <<>>)

\* xs.filter(x => x !== '')
DropEmpty(xs) ==
  LET idx == SelectIdx(Tuple([i \in DOMAIN xs |-> xs[i] # <<>>]), 1, Len(xs))
  IN  Tuple([k \in DOMAIN idx |-> xs[idx[k]]])

\* data.map(row => row[col]?.trim() || '').filter(v => v !== '')
ColumnValues(data, col) ==
  DropEmpty(Tuple([i \in DOMAIN data |-> Trim(OrEmpty(data[i], col))]))

\* the largest number of one-hot features of a categorical column
MaxCategories == 20

\* uniqueArr.slice(0, 21): one category more than the source keeps
LimitedValuesMutant(data, col) ==
  LET uniqueArr == Distinct(ColumnValues(data, col))
  IN  SubSeq(uniqueArr, 1, Min2(MaxCategories + 1, Len(uniqueArr)))

\* uniqueArr.slice(0, 20) of the trimmed non-empty values of col
LimitedValues(data, col) ==
  LET uniqueArr == Distinct(ColumnValues(data, col))
  IN  SubSeq(uniqueArr, 1, Min2(MaxCategories, Len(uniqueArr)))

IsNumericLike(colType) ==
  colType \in {"days_since", "date", "age", "numeric", "boolean", "distance"}

IsBinaryType(colType) == colType \in {"binary_gender", "binary_parental"}

\* `${col}::${v}`
CategoryName(col, v) == col \o <<":",":">> \o v

\* columnTypes, per index of columns
ColumnTypesOf(data, columns) ==
  Tuple([c \in DOMAIN columns |->
           detectColumnType(columns[c], ColumnValues(data, columns[c]))])

\* the column is encoded as one numeric feature
IsSingleFeature(colType) == IsNumericLike(colType) \/ IsBinaryType(colType)

\* categoricalMaps, per index of columns: the categories of a one-hot column
\* in the order of their features
ValueMapsOf(data, columns, types) ==
  Tuple([c \in DOMAIN columns |->
           IF IsSingleFeature(types[c]) THEN <<>> ELSE LimitedValues(data, columns[c])])

\* the feature names that one column contributes
NamesOf(col, colType, valueMap) ==
  IF IsSingleFeature(colType) THEN <<col>>
  ELSE Tuple([k \in DOMAIN valueMap |-> CategoryName(col, valueMap[k])])

\* val === category ? 1 : 0 for every category of the column
OneHot(val, valueMap) ==
  Tuple([k \in DOMAIN valueMap |-> IF val = valueMap[k] THEN Num(1) ELSE Num(0)])

\* the features that one column contributes to the row
FeaturesOf(row, col, colType, valueMap, now) ==
  IF IsSingleFeature(colType)
  THEN <<encodeValue(OrEmpty(row, col), colType, now)>>
  ELSE OneHot(Trim(OrEmpty(row, col)), valueMap)

\* the feature names, the matrix and the maps, from the types and categories
BuildFeatures(data, columns, types, valueMaps, now) ==
  [ matrix |->
      Tuple([i \in DOMAIN data |->
               Flatten(Tuple([c \in DOMAIN columns |->
                  FeaturesOf(data[i], columns[c], types[c], valueMaps[c], now)]))]),
    featureNames |->
      Flatten(Tuple([c \in DOMAIN columns |->
                       NamesOf(columns[c], types[c], valueMaps[c])])),
    categoricalMaps |->
      [col \in { c \in Range(columns) : ~IsSingleFeature(types[IndexIn(c, columns)]) } |->
         valueMaps[IndexIn(col, columns)]],
    columnTypes |-> [col \in Range(columns) |-> types[IndexIn(col, columns)]] ]

\* preprocessData once the column types are determined
EncodeColumns(data, columns, types, now) ==
  BuildFeatures(data, columns, types, ValueMapsOf(data, columns, types), now)

preprocessData(data, columns, now) ==
  EncodeColumns(data, columns, ColumnTypesOf(data, columns), now)

(***************************************************************************)
(* NORMALIZATION AND MATH                                                  *)
(***************************************************************************)

RECURSIVE ColumnMin(_, _, _, _)
\* mins[j] after the rows from i on: if (row[j] < mins[j]) mins[j] = row[j]
ColumnMin(matrix, j, i, acc) ==
  IF i > Len(matrix) THEN acc
  ELSE ColumnMin(matrix, j, i + 1, IF NLt(matrix[i][j], acc) THEN matrix[i][j] ELSE acc)

RECURSIVE ColumnMax(_, _, _, _)
\* maxs[j] after the rows from i on: if (row[j] > maxs[j]) maxs[j] = row[j]
ColumnMax(matrix, j, i, acc) ==
  IF i > Len(matrix) THEN acc
  ELSE ColumnMax(matrix, j, i + 1, IF NGt(matrix[i][j], acc) THEN matrix[i][j] ELSE acc)

\* range === 0 ? 0 : (val - min) / range
Rescale(val, min, max) ==
  LET range == NSub(max, min)
  IN  IF NEq(range, Num(0)) THEN Num(0) ELSE NDiv(NSub(val, min), range)

normalizeMatrix(matrix) ==
  IF Len(matrix) = 0 THEN [normalized |-> <<>>, mins |-> <<>>, maxs |-> <<>>]
  ELSE LET numFeatures == Len(matrix[1])
           mins == Tuple([j \in 1..numFeatures |-> ColumnMin(matrix, j, 1, PosInf)])
           maxs == Tuple([j \in 1..numFeatures |-> ColumnMax(matrix, j, 1, NegInf)])
       IN  [ normalized |-> [i \in DOMAIN matrix |->
                               [j \in DOMAIN matrix[i] |->
                                  Rescale(matrix[i][j], mins[j], maxs[j])]],
             mins |-> mins,
             maxs |-> maxs ]

\* 1 / (1 + Math.exp(-t)) for a finite t, through e^(-|t|) so that no
\* intermediate value is large
Logistic(t) ==
  LET e == ExpNeg(Abs(t))
  IN  IF t >= 0 THEN FxQuot(FxScale, FxScale + e) ELSE FxQuot(e, FxScale + e)

sigmoid(x) ==
  LET t == NMax(Num(-500), NMin(Num(500), x))
  IN  IF IsNaN(t) THEN NaN ELSE Fin(Logistic(t.v))

(***************************************************************************)
(* LOGISTIC REGRESSION                                                     *)
(***************************************************************************)

RECURSIVE DotFrom(_, _, _, _)
\* z after "z += weights[j] * row[j]" for the indices from j on
DotFrom(weights, row, j, z) ==
  IF j > Len(weights) THEN z
  ELSE DotFrom(weights, row, j + 1, NAdd(z, NMul(weights[j], row[j])))

\* z = bias + sum of weights[j] * row[j]
LinearScore(weights, bias, row) == DotFrom(weights, row, 1, bias)

\* the L2 term lambda * weights[j] / m, added once for every row
\* (the body of the loop over i adds it to dw[j])
L2Term(lambda, w, m) == NDiv(NMul(lambda, w), Num(m))

\* error = pred - y[i], for every row i
Errors(X, y, weights, bias) ==
  Tuple([i \in DOMAIN X |->
           NSub(sigmoid(LinearScore(weights, bias, X[i])), Num(y[i]))])

\* dw with the L2 term added once, after the loop over the rows
GradientMutant(X, weights, lambda, error) ==
  Tuple([j \in DOMAIN weights |->
           NAdd(NSum(Tuple([i \in DOMAIN X |-> NMul(error[i], X[i][j])])),
                L2Term(lambda, weights[j], Len(X)))])

\* dw after the loop over the rows
Gradient(X, weights, lambda, error) ==
  Tuple([j \in DOMAIN weights |->
           NSum(Tuple([i \in DOMAIN X |->
                         NAdd(NMul(error[i], X[i][j]),
                              L2Term(lambda, weights[j], Len(X)))]))])

\* weights[j] -= (learningRate / m) * dw[j]; bias -= (learningRate / m) * db
Descend(weights, bias, step, dw, db) ==
  [ weights |-> Tuple([j \in DOMAIN weights |-> NSub(weights[j], NMul(step, dw[j]))]),
    bias |-> NSub(bias, NMul(step, db)) ]

\* the updates of one pass, from the errors of its rows
UpdateFrom(X, weights, bias, learningRate, lambda, error) ==
  Descend(weights, bias, NDiv(learningRate, Num(Len(X))),
          Gradient(X, weights, lambda, error), NSum(error))

\* one pass of the loop "for iter" of trainLogisticRegression
TrainIteration(X, y, weights, bias, learningRate, lambda) ==
  UpdateFrom(X, weights, bias, learningRate, lambda, Errors(X, y, weights, bias))

\* X[0]?.length || 0
NumFeatures(X) == IF Len(X) = 0 THEN 0 ELSE Len(X[1])

\* new Array(numFeatures).fill(0)
ZeroWeights(X) == [j \in 1..NumFeatures(X) |-> Num(0)]

(***************************************************************************)
(* CORRELATION                                                             *)
(***************************************************************************)

\* xs.reduce((a, b) => a + b, 0) / n
Mean(xs, n) == NDiv(NSum(xs), Num(n))

\* the differences xs[i] - mean of the loop of calculateCorrelation, i < n
Deviations(xs, mean, n) == Tuple([i \in 1..n |-> NSub(xs[i], mean)])

\* the sum over i of dx[i] * dy[i]
SumOfProducts(dx, dy) == NSum(Tuple([i \in DOMAIN dx |-> NMul(dx[i], dy[i])]))

\* denom === 0 ? 0 : numerator / denom
Ratio(numerator, denom) ==
  IF NEq(denom, Num(0)) THEN Num(0) ELSE NDiv(numerator, denom)

\* calculateCorrelation after its loop
CorrelationOf(dx, dy) ==
  Ratio(SumOfProducts(dx, dy),
        NSqrt(NMul(SumOfProducts(dx, dx), SumOfProducts(dy, dy))))

calculateCorrelation(feature, labels) ==
  IF Len(feature) = 0 THEN Num(0)
  ELSE CorrelationOf(Deviations(feature, Mean(feature, Len(feature)), Len(feature)),
                     Deviations(labels, Mean(labels, Len(feature)), Len(feature)))

(***************************************************************************)
(* BINARY FIELD HELPERS                                                    *)
(***************************************************************************)

\* the two values of a binary column, <<>> for null
getBinaryValues(data, col) ==
  LET arr == Distinct(ColumnValues(data, col))
  IN  IF Len(arr) # 2 THEN <<>> ELSE <<arr[1], arr[2]>>

(***************************************************************************)
(* EXPLANATION GENERATION                                                  *)
(*                                                                         *)
(* A sentence is represented by the template it is built from and the      *)
(* values that the template embeds.                                        *)
(***************************************************************************)

Sentence(template, variant, first, second, corrPct, confidence) ==
  [ template |-> template, variant |-> variant, first |-> first, second |-> second,
    corrPct |-> corrPct, confidence |-> confidence ]

\* name.replace(/_/g, ' ')
ReplaceUnderscores(name) == [i \in DOMAIN name |-> IF name[i] = "_" THEN " " ELSE name[i]]

\* val1Encoded === 1 ? <<vals[0], vals[1]>> : <<vals[1], vals[0]>>: the value
\* taken as encoded 1 first, the value taken as encoded 0 second
OrderByEncoding(binaryVals, colType, now) ==
  IF NEq(encodeValue(binaryVals[1], colType, now), Num(1))
  THEN <<binaryVals[1], binaryVals[2]>>
  ELSE <<binaryVals[2], binaryVals[1]>>

\* the sentence of a binary column: the more likely value first.  ordered
\* holds the value taken as encoded 1, then the value taken as encoded 0.
BinarySentence(template, ordered, direction, corrPct, confidence) ==
  IF direction = "positive"
  THEN Sentence(template, "note", ordered[1], ordered[2], corrPct, confidence)
  ELSE Sentence(template, "note", ordered[2], ordered[1], corrPct, confidence)

\* the sentence of a one-hot feature, parts being name.split('::')
CategorySentence(parts, direction, corrPct, confidence) ==
  Sentence("categorical", direction, parts[2], ReplaceUnderscores(parts[1]),
           corrPct, confidence)

generateExplanation(name, colType, direction, corrPct, confidence, allData, now) ==
  IF Includes(name, <<":",":">>)
  THEN CategorySentence(Split(name, <<":",":">>), direction, corrPct, confidence)
  ELSE IF colType = "days_since"
  THEN Sentence("days_since", direction, <<>>, <<>>, corrPct, confidence)
  ELSE IF colType = "date"
  THEN (IF Includes(ToLowerCase(name), <<"b","i","r","t","h">>)
        THEN Sentence("birthdate", direction, <<>>, <<>>, corrPct, confidence)
        ELSE Sentence("date", direction, ReplaceUnderscores(name), <<>>,
                      corrPct, confidence))
  ELSE IF colType = "binary_gender" /\ getBinaryValues(allData, name) # <<>>
  THEN BinarySentence("gender",
                      OrderByEncoding(getBinaryValues(allData, name), colType, now),
                      direction, corrPct, confidence)
  ELSE IF colType = "binary_parental" /\ getBinaryValues(allData, name) # <<>>
  THEN BinarySentence("parental",
                      OrderByEncoding(getBinaryValues(allData, name), colType, now),
                      direction, corrPct, confidence)
  ELSE IF colType = "age"
  THEN Sentence("age", direction, <<>>, <<>>, corrPct, confidence)
  ELSE IF colType = "distance"
  THEN Sentence("distance", direction, <<>>, <<>>, corrPct, confidence)
  ELSE IF colType = "boolean"
  THEN Sentence("boolean", direction, ReplaceUnderscores(name), <<>>,
                corrPct, confidence)
  ELSE Sentence("numeric", direction, ReplaceUnderscores(name), <<>>,
                corrPct, confidence)

(***************************************************************************)
(* FEATURE IMPORTANCE                                                      *)
(***************************************************************************)

\* weights[idx] as a number: undefined (an index past the end) reads as NaN
WeightAt(weights, idx) == IF idx \in DOMAIN weights THEN weights[idx] ELSE NaN

RECURSIVE NMaxFrom(_, _, _)
\* Math.max of acc and the elements of xs from index i on
NMaxFrom(xs, i, acc) ==
  IF i > Len(xs) THEN acc ELSE NMaxFrom(xs, i + 1, NMax(acc, xs[i]))

\* the floor 0.001 of the largest absolute weight
MinAbsWeight == Fin(FxScale \div 1000)

\* Math.max(...weights.map(Math.abs), 0.001)
MaxAbsWeight(weights) ==
  NMaxFrom(Tuple([j \in DOMAIN weights |-> NAbs(weights[j])]), 1, MinAbsWeight)

\* Math.round((Math.abs(weights[idx]) / maxAbsWeight) * 100)
Importance(weights, idx) ==
  NRound(NMul(NDiv(NAbs(WeightAt(weights, idx)), MaxAbsWeight(weights)), Num(100)))

\* confidence before the floor of 1, without the cap of 99
ConfidenceUncapped(memberVals, contactVals) ==
  LET memberMean == NDiv(NSum(memberVals), Num(Max2(Len(memberVals), 1)))
      contactMean == NDiv(NSum(contactVals), Num(Max2(Len(contactVals), 1)))
      diff == NAbs(NSub(memberMean, contactMean))
      size == Min2(Len(memberVals), Len(contactVals))
  IN  NRound(NMul(NMul(diff, Num(100)), NSqrt(NDiv(Num(size), Num(10)))))

\* Math.min(99, Math.round(diff * 100 * Math.sqrt(Math.min(...) / 10)))
Confidence(memberVals, contactVals) ==
  NMin(Num(99), ConfidenceUncapped(memberVals, contactVals))

\* name.includes('::') ? name.split('::')[0] : name
BaseColName(name) == IF Includes(name, <<":",":">>) THEN Split(name, <<":",":">>)[1] ELSE name

\* columnTypes.get(baseColName) || 'numeric'
ColTypeOf(baseColName, columnTypes) ==
  IF baseColName \in DOMAIN columnTypes THEN columnTypes[baseColName] ELSE "numeric"

\* a direction that ignores the sign of the weight
DirectionOfMutant(weight) == "positive"

\* weights[idx] >= 0 ? 'positive' : 'negative'
DirectionOf(weight) == IF NGe(weight, Num(0)) THEN "positive" ELSE "negative"

\* Math.round(Math.abs(correlation) * 100)
CorrPct(correlation) == NRound(NMul(NAbs(correlation), Num(100)))

\* the entry returned by the callback of featureNames.map, from the values
\* the callback has computed (confidence before its floor of 1)
EntryOf(name, importance, correlation, confidence, direction, colType, allData, now) ==
  [ field |-> name,
    importance |-> importance,
    correlation |-> NDiv(NRound(NMul(correlation, Num(100))), Num(100)),
    confidence |-> NMax(Num(1), confidence),
    direction |-> direction,
    explanation |-> generateExplanation(name, colType, direction, CorrPct(correlation),
                                        NMax(Num(1), confidence), allData, now) ]

\* normalized.map(row => row[idx])
FeatureCol(normalized, idx) == Tuple([i \in DOMAIN normalized |-> normalized[i][idx]])

\* memberMatrix.map(row => row[idx])
MemberVals(featureCol, memberCount) ==
  SubSeq(featureCol, 1, Min2(memberCount, Len(featureCol)))

\* contactMatrix.map(row => row[idx])
ContactVals(featureCol, memberCount) ==
  SubSeq(featureCol, memberCount + 1, Len(featureCol))

\* the callback of featureNames.map on the column of feature idx
EntryOfColumn(name, idx, featureCol, labels, memberCount, weights, columnTypes, allData, now) ==
  EntryOf(name,
          Importance(weights, idx),
          calculateCorrelation(featureCol, labels),
          Confidence(MemberVals(featureCol, memberCount),
                     ContactVals(featureCol, memberCount)),
          DirectionOf(WeightAt(weights, idx)),
          ColTypeOf(BaseColName(name), columnTypes),
          allData, now)

\* the callback of featureNames.map: the entry of feature idx
FeatureEntry(name, idx, normalized, labels, memberCount, weights, columnTypes, allRecords, now) ==
  EntryOfColumn(name, idx, FeatureCol(normalized, idx), labels, memberCount, weights,
                columnTypes, allRecords, now)

\* featureNames.map((name, idx) => ...)
FeatureImportances(featureNames, normalized, labels, memberCount, weights, columnTypes, allRecords, now) ==
  [idx \in DOMAIN featureNames |->
     FeatureEntry(featureNames[idx], idx, normalized, labels, memberCount, weights,
                  columnTypes, allRecords, now)]

(***************************************************************************)
(* BINARY POST-PROCESSING, GROUPING AND SORTING                            *)
(***************************************************************************)

\* the index of the first element of xs that satisfies ok, 0 when none does
FirstIndex(ok) ==
  IF \E i \in DOMAIN ok : ok[i]
  THEN CHOOSE i \in DOMAIN ok : ok[i] /\ \A k \in 1..(i - 1) : ~ok[k]
  ELSE 0

\* xs without its element at index i
RemoveAt(xs, i) == SubSeq(xs, 1, i - 1) \o SubSeq(xs, i + 1, Len(xs))

\* `${col} (${value})`
BinaryName(col, value) == col \o <<" ","(">> \o value \o <<")">>

\* Math.round(Math.abs(entry.correlation) * 100)
CorrPctOf(entry) == NRound(NMul(NAbs(entry.correlation), Num(100)))

\* a complementary entry that repeats the correlation of the main entry
ComplementaryEntryMutant(col, kind, mainEntry, moreLikely, lessLikely) ==
  [ field |-> BinaryName(col, lessLikely),
    importance |-> mainEntry.importance,
    correlation |-> mainEntry.correlation,
    confidence |-> mainEntry.confidence,
    direction |-> "negative",
    explanation |-> Sentence(kind, "complementary", lessLikely, moreLikely,
                             CorrPctOf(mainEntry), mainEntry.confidence) ]

\* binarySupplements.push({...}): the entry of the less likely value
ComplementaryEntry(col, kind, mainEntry, moreLikely, lessLikely) ==
  [ field |-> BinaryName(col, lessLikely),
    importance |-> mainEntry.importance,
    correlation |-> NNeg(mainEntry.correlation),
    confidence |-> mainEntry.confidence,
    direction |-> "negative",
    explanation |-> Sentence(kind, "complementary", lessLikely, moreLikely,
                             CorrPctOf(mainEntry), mainEntry.confidence) ]

\* the main entry renamed for its more likely value
RenamedEntry(col, kind, mainEntry, moreLikely, lessLikely) ==
  [mainEntry EXCEPT
     !.field = BinaryName(col, moreLikely),
     !.explanation = Sentence(kind, "main", moreLikely, lessLikely,
                              CorrPctOf(mainEntry), mainEntry.confidence),
     !.direction = "positive"]

\* the entries and the supplements after the main entry at index at is renamed
\* and its complementary entry is pushed
PairUp(col, kind, state, at, moreLikely, lessLikely) ==
  [ featureImportances |->
      [state.featureImportances EXCEPT
         ![at] = RenamedEntry(col, kind, @, moreLikely, lessLikely)],
    binarySupplements |->
      Append(state.binarySupplements,
             ComplementaryEntry(col, kind, state.featureImportances[at],
                                moreLikely, lessLikely)) ]

\* moreLikely and lessLikely from the direction of the main entry; ordered
\* holds the value taken as encoded 1, then the value taken as encoded 0
PairByDirection(col, kind, state, at, ordered) ==
  IF state.featureImportances[at].direction = "positive"
  THEN PairUp(col, kind, state, at, ordered[1], ordered[2])
  ELSE PairUp(col, kind, state, at, ordered[2], ordered[1])

\* featureImportances.find(f => f.field === col), as an index; 0 when absent
MainEntryIndex(fis, col) == FirstIndex(Tuple([i \in DOMAIN fis |-> fis[i].field = col]))

\* the template of the explanations of a binary column
KindOf(colType) == IF colType = "binary_gender" THEN "gender" ELSE "parental"

\* the body of the loop for a binary column, from mainEntry and binaryVals
BinaryPostAt(col, colType, state, at, binaryVals, now) ==
  IF at = 0 \/ binaryVals = <<>> THEN state
  ELSE PairByDirection(col, KindOf(colType), state, at,
                       OrderByEncoding(binaryVals, colType, now))

\* the body of the loop over columnTypes.entries() for one column: the list of
\* entries and the list of supplements after it
BinaryPostColumn(col, colType, state, allRecords, now) ==
  IF ~IsBinaryType(colType) THEN state
  ELSE BinaryPostAt(col, colType, state,
                    MainEntryIndex(state.featureImportances, col),
                    getBinaryValues(allRecords, col), now)

RECURSIVE BinaryPostFrom(_, _, _, _, _, _)
\* the loop over columnTypes.entries(), which lists the columns in the order
\* of their first insertion
BinaryPostFrom(cols, i, columnTypes, state, allRecords, now) ==
  IF i > Len(cols) THEN state
  ELSE BinaryPostFrom(cols, i + 1, columnTypes,
                      BinaryPostColumn(cols[i], columnTypes[cols[i]], state,
                                       allRecords, now),
                      allRecords, now)

BinaryPost(columns, columnTypes, featureImportances, allRecords, now) ==
  BinaryPostFrom(Distinct(columns), 1, columnTypes,
                 [featureImportances |-> featureImportances, binarySupplements |-> <<>>],
                 allRecords, now)

\* fi.field.includes(' (') ? fi.field.split(' (')[0] : fi.field
BinaryBase(field) == IF Includes(field, <<" ","(">>) THEN Split(field, <<" ","(">>)[1] ELSE field

RECURSIVE InsertSupplements(_, _, _, _)
\* the loop that copies every entry and, right after it, the first remaining
\* supplement of its base column; the supplements left over go last
InsertSupplements(fis, i, supplements, out) ==
  IF i > Len(fis) THEN out \o supplements
  ELSE LET fi == fis[i]
           baseCol == BinaryBase(fi.field)
           at == FirstIndex([k \in DOMAIN supplements |->
                               /\ StartsWith(supplements[k].field, baseCol \o <<" ","(">>)
                               /\ supplements[k].field # fi.field])
       IN  IF at = 0
           THEN InsertSupplements(fis, i + 1, supplements, Append(out, fi))
           ELSE InsertSupplements(fis, i + 1, RemoveAt(supplements, at),
                                  out \o <<fi, supplements[at]>>)

\* the base column of an entry for grouping
GroupBase(field) ==
  IF Includes(field, <<" ","(">>) THEN Split(field, <<" ","(">>)[1]
  ELSE IF Includes(field, <<":",":">>) THEN Split(field, <<":",":">>)[1]
  ELSE field

\* the groups of entries by base column, in the order of first appearance
GroupByBase(finalImportances) ==
  LET base == Tuple([i \in DOMAIN finalImportances |->
                       GroupBase(finalImportances[i].field)])
      bases == Distinct(base)
  IN  Tuple([g \in DOMAIN bases |->
         LET idx == SelectIdx(Tuple([i \in DOMAIN base |-> base[i] = bases[g]]),
                              1, Len(base))
         IN  Tuple([k \in DOMAIN idx |-> finalImportances[idx[k]]])])

\* Math.max(...group.map(f => f.importance))
GroupMax(group) ==
  NMaxFrom(Tuple([i \in DOMAIN group |-> group[i].importance]), 1, NegInf)

RECURSIVE InsertIndex(_, _, _)
\* the index x put into the list of indices sorted: before every trailing
\* index that the comparator key(b) - key(a) places after it (a difference
\* that is NaN counts as 0)
InsertIndex(sorted, keys, x) ==
  IF sorted = <<>> THEN <<x>>
  ELSE LET last == sorted[Len(sorted)]
       IN  IF NGt(NSub(keys[x], keys[last]), Num(0))
           THEN Append(InsertIndex(SubSeq(sorted, 1, Len(sorted) - 1), keys, x), last)
           ELSE Append(sorted, x)

RECURSIVE SortOrderFrom(_, _, _)
SortOrderFrom(keys, i, sorted) ==
  IF i > Len(keys) THEN sorted
  ELSE SortOrderFrom(keys, i + 1, InsertIndex(sorted, keys, i))

\* Array.prototype.sort((a, b) => key(b) - key(a)): the indices of the
\* elements in their order after the stable sort by descending key
SortOrderDesc(keys) == SortOrderFrom(keys, 1, <<>>)

\* the elements of xs in the order of the indices given
Permute(xs, order) == Tuple([k \in DOMAIN order |-> xs[order[k]]])

\* xs.sort((a, b) => key(b) - key(a)) for the keys given per index
SortDescBy(xs, keys) == Permute(xs, SortOrderDesc(Tuple(keys)))

\* groupedImportances sorted by the largest importance of each group, flattened
GroupAndSort(finalImportances) ==
  LET grouped == GroupByBase(finalImportances)
  IN  Flatten(SortDescBy(grouped, [g \in DOMAIN grouped |-> GroupMax(grouped[g])]))

(***************************************************************************)
(* PREDICTIONS                                                             *)
(***************************************************************************)

\* Math.round(x * 100) / 100
RoundTo2(x) == NDiv(NRound(NMul(x, Num(100))), Num(100))

\* the number of factors kept per prediction
MaxFactors == 10

\* Math.max(1, Math.min(100, Math.round(rawScore * 99 + 1)))
ScoreOf(rawScore) ==
  NMax(Num(1), NMin(Num(100), NRound(NAdd(NMul(rawScore, Num(99)), Num(1)))))

\* factors after the loop over the weights
Factors(row, weights, featureNames) ==
  Tuple([j \in DOMAIN weights |->
           [ field |-> featureNames[j],
             contribution |-> RoundTo2(NMul(weights[j], row[j])) ]])

\* the first ten factors in the order of the features
TopFactorsMutant(factors) == SubSeq(factors, 1, Min2(MaxFactors, Len(factors)))

\* factors.sort((a, b) => Math.abs(b.contribution) - Math.abs(a.contribution))
\* and factors.slice(0, 10)
TopFactors(factors) ==
  SubSeq(SortDescBy(factors, [j \in DOMAIN factors |-> NAbs(factors[j].contribution)]),
         1, Min2(MaxFactors, Len(factors)))

\* the callback of contactData.map: the prediction of one contact
Prediction(contact, row, weights, bias, featureNames) ==
  [ originalData |-> contact,
    score |-> ScoreOf(sigmoid(LinearScore(weights, bias, row))),
    factors |-> TopFactors(Factors(row, weights, featureNames)) ]

\* the predictions left in the order of the contact records
SortByScoreMutant(predictions) == predictions

\* predictions.sort((a, b) => b.score - a.score)
SortByScore(predictions) ==
  SortDescBy(predictions, [idx \in DOMAIN predictions |-> predictions[idx].score])

\* contactData.map(...) followed by the sort on descending score
Predictions(contactData, contactMatrix, weights, bias, featureNames) ==
  SortByScore(Tuple([idx \in DOMAIN contactData |->
                       Prediction(contactData[idx], contactMatrix[idx], weights,
                                  bias, featureNames)]))

\* sortedImportances.filter(f => f.importance > 0)
PositiveImportance(entries) ==
  LET idx == SelectIdx(Tuple([i \in DOMAIN entries |->
                                NGt(entries[i].importance, Num(0))]),
                       1, Len(entries))
  IN  [k \in DOMAIN idx |-> entries[idx[k]]]

\* sigmoid(z) >= 0.5 ? 1 : 0
PredictedLabel(row, weights, bias) ==
  IF NGe(sigmoid(LinearScore(weights, bias, row)), Fin(FxScale \div 2)) THEN 1 ELSE 0

\* correct after the loop over the rows
CorrectCount(normalized, labels, weights, bias) ==
  CountIf(Tuple([i \in DOMAIN normalized |->
                   PredictedLabel(normalized[i], weights, bias) = labels[i]]),
          Len(normalized))

\* the model accuracy: Math.round((correct / normalized.length) * 100)
ModelAccuracy(normalized, labels, weights, bias) ==
  NRound(NMul(NDiv(Num(CorrectCount(normalized, labels, weights, bias)),
                   Num(Len(normalized))),
              Num(100)))
(***************************************************************************)
(* STATE                                                                   *)
(***************************************************************************)

VARIABLES
  address,    \* the address string handed to analyzeColumbia
  geoPc,      \* "start" before the call, "done" after it
  analysis,   \* the ColumbiaAnalysis returned
  coords,     \* analyzeColumbia's local coords (<<>> when null or not computed)
  memberHeaders,   \* App: memberData.headers in a tuple, <<>> while memberData is null
  contactHeaders,  \* App: contactData.headers in a tuple, <<>> while contactData is null
  addressField,    \* App: the detected header in a tuple, <<>> for null
  rows,            \* the records handed to enrichWithColumbiaData
  enriched,        \* the records it returned
  enrichPc,        \* "start", "detected" or "enriched"; "idle" when not in use
  memberData,          \* analyzeAndPredict: the member records
  contactData,         \* analyzeAndPredict: the contact records
  memberColumns,       \* analyzeAndPredict: the member column list
  contactColumns,      \* analyzeAndPredict: the contact column list
  learningRate,        \* trainLogisticRegression: the argument learningRate
  lambda,              \* trainLogisticRegression: the argument lambda
  now,                 \* the reading of the clock (Date.now()) during the run
  pc,                  \* the position of the run inside analyzeAndPredict
  commonColumns,       \* locals of analyzeAndPredict, <<>> until computed
  matrix,
  featureNames,
  columnTypes,
  normalized,
  weights,             \* locals of trainLogisticRegression
  bias,
  iter,
  modelAccuracy,
  featureImportances,  \* the list of entries under construction
  binarySupplements,
  predictions,
  result,              \* the AnalysisResult returned
  thrown,              \* the message of the Error thrown, "" when none
  step,                \* App state: 'upload', 'analyzing' or 'results'
  error,               \* App state: the error message shown, "" for null
  analysisResult,      \* App state: the result shown, <<>> for null
  runs,                \* the number of the current run on these inputs
  previous,            \* what the previous run on these inputs returned
  memberCsv,           \* App state memberData: the parsed member file, <<>> for null
  contactCsv,          \* App state contactData: the parsed contact file, <<>> for null
  parsing,             \* the calls of parseCSV that have not completed yet
  uploads,             \* the number of files handed to the upload cards so far
  downloaded           \* the rows of the last file handed to downloadCSV

enrichVars == <<memberHeaders, contactHeaders, addressField, rows, enriched, enrichPc>>

geoVars == <<address, geoPc, analysis, coords, enrichVars>>

uploadVars == <<memberCsv, contactCsv, parsing, uploads, downloaded>>

inputVars ==
  <<memberData, contactData, memberColumns, contactColumns, learningRate, lambda,
    uploadVars>>

localVars ==
  <<commonColumns, matrix, featureNames, columnTypes, normalized, weights, bias,
    iter, modelAccuracy, featureImportances, binarySupplements, predictions,
    result, thrown>>

appVars == <<step, error, analysisResult>>

rerunVars == <<now, runs, previous>>

engineVars == <<inputVars, localVars, appVars, rerunVars, pc>>

vars == <<geoVars, engineVars>>

\* the learning rate 0.5 and the L2 factor 0.01 that analyzeAndPredict passes
\* to trainLogisticRegression
LearningRate == Fin(FxScale \div 2)

Lambda == Fin(FxScale \div 100)

\* no file was handed to the application
UploadIdle ==
  /\ memberCsv = <<>> /\ contactCsv = <<>>
  /\ parsing = {} /\ uploads = 0 /\ downloaded = <<>>

\* the locals of a run before its first step
RunLocalsUnset ==
  /\ commonColumns = <<>>
  /\ matrix = <<>>
  /\ featureNames = <<>>
  /\ columnTypes = <<>>
  /\ normalized = <<>>
  /\ weights = <<>>
  /\ bias = Num(0)
  /\ iter = 0
  /\ modelAccuracy = Num(0)
  /\ featureImportances = <<>>
  /\ binarySupplements = <<>>
  /\ predictions = <<>>
  /\ result = <<>>
  /\ thrown = ""
  /\ UploadIdle

\* the same, with the arguments of the training call of analyzeAndPredict
LocalsUnset ==
  /\ RunLocalsUnset
  /\ learningRate = LearningRate
  /\ lambda = Lambda

\* no engine run in this behaviour
EngineIdle ==
  /\ memberData = <<>> /\ contactData = <<>>
  /\ memberColumns = <<>> /\ contactColumns = <<>>
  /\ now = Num(0) /\ runs = 0 /\ previous = <<>>
  /\ pc = "idle"
  /\ LocalsUnset
  /\ step = "upload" /\ error = "" /\ analysisResult = <<>>

\* no classifier call in this behaviour
\* no enrichment in this behaviour
EnrichIdle ==
  /\ memberHeaders = <<>> /\ contactHeaders = <<>>
  /\ addressField = <<>>
  /\ rows = <<>> /\ enriched = <<>>
  /\ enrichPc = "idle"

GeoIdle ==
  /\ address = <<>>
  /\ geoPc = "idle"
  /\ analysis = <<>>
  /\ coords = <<>>
  /\ EnrichIdle

(***************************************************************************)
(* GEO CLASSIFIER RUNS                                                     *)
(***************************************************************************)

Streets ==
  { <<>>,
    <<"1","2","3"," ","M","a","i","n"," ","S","t">>,
    <<"1","0","0","0","0"," ","M","a","i","n"," ","S","t">> }

Cities ==
  { <<>>,
    <<"C","o","l","u","m","b","i","a">>,
    <<"B","a","l","t","i","m","o","r","e">>,
    <<"M","a","r","r","i","o","t","t","s","v","i","l","l","e">>,
    <<"L","a","u","r","e","l">>,
    <<"S","p","r","i","n","g","f","i","e","l","d">>,
    <<"c","o","n","s","t","r","u","c","t","o","r">> }

States == { <<>>, <<"M","D">>, <<"S","C">> }

Zips ==
  { <<>>,
    <<"2","1","0","4","4">>,
    <<"2","1","2","0","1">>,
    <<"2","9","2","0","1">> }

Separators == { <<",", " ">>, <<",">>, <<" ">> }

RECURSIVE Join(_, _)
\* the non-empty parts joined by sep
Join(parts, sep) ==
  IF parts = <<>> THEN <<>>
  ELSE LET rest == Join(Tail(parts), sep)
       IN  IF Head(parts) = <<>> THEN rest
           ELSE IF rest = <<>> THEN Head(parts)
           ELSE Head(parts) \o sep \o rest

\* the two addresses of the worked example
ColumbiaExample == <<"1","2","3"," ","M","a","i","n"," ","S","t",","," ","C","o","l","u","m","b","i","a",","," ","M","D"," ","2","1","0","4","4">>

BaltimoreExample == <<"1"," ","P","a","r","k"," ","A","v","e",","," ","B","a","l","t","i","m","o","r","e",","," ","M","D"," ","2","1","2","0","1">>

Addresses ==
  { Join(<<st, c, s, z>>, sep) :
      st \in Streets, c \in Cities, s \in States, z \in Zips, sep \in Separators }
  \cup { <<" ", " ">>, <<" ", "\t">> }
  \cup { ColumbiaExample, BaltimoreExample }

NoAnalysis == ColumbiaAnalysis(FALSE, "", <<>>, "", FALSE)

GeoInit ==
  /\ address \in Addresses
  /\ geoPc = "start"
  /\ analysis = NoAnalysis
  /\ coords = <<>>
  /\ EnrichIdle
  /\ EngineIdle

\* one call analyzeColumbia(address)
GeoAnalyze ==
  /\ geoPc = "start"
  /\ analysis' = analyzeColumbia(address)
  /\ coords' = CoordsOf(address)
  /\ geoPc' = "done"
  /\ UNCHANGED <<address, enrichVars, engineVars>>

GeoNext == GeoAnalyze

GeoSpec == GeoInit /\ [][GeoNext]_vars


(***************************************************************************)
(* ADDRESS FIELD DETECTION AND ENRICHMENT                                  *)
(***************************************************************************)

\* /^<first>[_\s]?address$/i on the lower-cased header
MatchesCompound(lower, first) ==
  \/ lower = first \o <<"a","d","d","r","e","s","s">>
  \/ \E i \in DOMAIN lower :
       /\ lower[i] = "_" \/ IsSpace(lower[i])
       /\ lower = first \o <<lower[i]>> \o <<"a","d","d","r","e","s","s">>

\* the number of entries of addressPatterns
NumAddressPatterns == 8

\* addressPatterns[p].test(h)
MatchesPattern(p, h) ==
  CASE p = 1 -> ToLowerCase(h) = <<"a","d","d","r","e","s","s">>
    [] p = 2 -> MatchesCompound(ToLowerCase(h), <<"s","t","r","e","e","t">>)
    [] p = 3 -> MatchesCompound(ToLowerCase(h), <<"m","a","i","l","i","n","g">>)
    [] p = 4 -> MatchesCompound(ToLowerCase(h), <<"h","o","m","e">>)
    [] p = 5 -> MatchesCompound(ToLowerCase(h), <<"f","u","l","l">>)
    [] p = 6 -> Includes(ToLowerCase(h), <<"a","d","d","r","e","s","s">>)
    [] p = 7 -> ToLowerCase(h) = <<"s","t","r","e","e","t">>
    [] p = 8 -> ToLowerCase(h) = <<"l","o","c","a","t","i","o","n">>

\* headers.find(h => pattern.test(h)): the header in a tuple, <<>> for undefined
FindHeader(headers, p) ==
  IF \E i \in DOMAIN headers : MatchesPattern(p, headers[i])
  THEN << headers[CHOOSE i \in DOMAIN headers :
            /\ MatchesPattern(p, headers[i])
            /\ \A k \in 1..(i - 1) : ~MatchesPattern(p, headers[k])] >>
  ELSE <<>>

RECURSIVE DetectFrom(_, _)
\* the loop over addressPatterns from pattern p on
DetectFrom(headers, p) ==
  IF p > NumAddressPatterns THEN <<>>
  ELSE IF FindHeader(headers, p) # <<>> /\ FindHeader(headers, p)[1] # <<>>
       THEN FindHeader(headers, p)
       ELSE DetectFrom(headers, p + 1)

\* the first header, in header order, that matches any of the patterns
detectAddressFieldMutant(headers) ==
  IF \E i \in DOMAIN headers : \E p \in 1..NumAddressPatterns : MatchesPattern(p, headers[i])
  THEN << headers[CHOOSE i \in DOMAIN headers :
            /\ \E p \in 1..NumAddressPatterns : MatchesPattern(p, headers[i])
            /\ \A k \in 1..(i - 1) :
                 \A p \in 1..NumAddressPatterns : ~MatchesPattern(p, headers[k])] >>
  ELSE <<>>

\* detectAddressField: the header in a tuple, <<>> for null
detectAddressField(headers) == DetectFrom(headers, 1)

\* App's addressField: detected from the member headers when a member dataset
\* is loaded, from the contact headers when only a contact dataset is loaded
AppAddressField(member, contact) ==
  IF member # <<>> THEN detectAddressField(member[1])
  ELSE IF contact # <<>> THEN detectAddressField(contact[1])
  ELSE <<>>

RECURSIVE DigitsOf(_)
\* the decimal digits of a natural number
DigitsOf(n) ==
  IF n < 10 THEN << DigitChars[n + 1] >>
  ELSE DigitsOf(n \div 10) \o << DigitChars[(n % 10) + 1] >>

\* String(distanceFromBorder) for a distance of some tenths of a mile, in
\* 1e-3 mile, or Infinity
DistanceToString(dist) ==
  IF dist = InfiniteDistance THEN <<"I","n","f","i","n","i","t","y">>
  ELSE IF dist[1] % 1000 = 0 THEN DigitsOf(dist[1] \div 1000)
  ELSE DigitsOf(dist[1] \div 1000) \o <<".">> \o DigitsOf((dist[1] % 1000) \div 100)

\* the field names added by enrichWithColumbiaData
ResidentField == <<"c","o","l","u","m","b","i","a","_","r","e","s","i","d","e","n","t">>

DistanceField == <<"d","i","s","t","a","n","c","e","_","f","r","o","m","_","c","o","l","u","m","b","i","a","_","m","i">>

\* yes, no, and unknown for an address without a classification
ResidentTextMutant(an) ==
  IF an.isResident THEN <<"y","e","s">>
  ELSE IF an.residencyStatus = "Unknown" THEN <<"u","n","k","n","o","w","n">> ELSE <<"n","o">>

\* analysis.isResident ? 'yes' : 'no'
ResidentText(an) == IF an.isResident THEN <<"y","e","s">> ELSE <<"n","o">>

\* the distance_from_columbia_mi value of an analysis
DistanceText(an) ==
  IF an.distanceFromBorder # <<>> THEN DistanceToString(an.distanceFromBorder)
  ELSE IF an.isResident THEN <<"0">> ELSE <<>>

\* { ...row, columbia_resident: ..., distance_from_columbia_mi: ... }
EnrichedRow(row, an) ==
  [f \in DOMAIN row \cup {ResidentField, DistanceField} |->
     IF f = ResidentField THEN ResidentText(an)
     ELSE IF f = DistanceField THEN DistanceText(an)
     ELSE row[f]]

\* enrichWithColumbiaData(data, addressField)
enrichWithColumbiaData(data, field) ==
  Tuple([i \in DOMAIN data |-> EnrichedRow(data[i], analyzeColumbia(OrEmpty(data[i], field)))])

(***************************************************************************)
(* ENGINE RUNS                                                             *)
(*                                                                         *)
(* One run of analyzeAndPredict inside the deferred callback of            *)
(* runAnalysis, taken phase by phase.                                      *)
(***************************************************************************)

\* the number of passes of the training loop (the source passes 2000)
Iterations == 3

\* the largest number of member records and of contact records of a run
MaxMembers == 2

MaxContacts == 2

\* the sequences over S of length at most n
SeqsUpTo(S, n) == UNION { [1..k -> S] : k \in 0..n }

\* the records with the columns cols and, in column c, a value of values[c]
RecordsOver(cols, values) ==
  { r \in [Range(cols) -> UNION { values[c] : c \in Range(cols) }] :
      \A c \in Range(cols) : r[c] \in values[c] }

AgeValues == { <<"4","0">>, <<"2","2">>, <<"I","n","f","i","n","i","t","y">> }

GenderValues == { <<"M">>, <<"F">>, <<>> }

VisitValues == { <<"2","0","2","6","-","0","1","-","0","5">>, <<"2","0","2","6","-","0","1","-","2","0">>, <<"n","a">>, <<>> }

PlanValues == { <<"g","o","l","d">>, <<"f","r","e","e">>, <<>> }

\* the value sets of the columns of the runs
ColumnValueSets ==
  [c \in { <<"a","g","e">>, <<"g","e","n","d","e","r">>, <<"l","a","s","t","_","v","i","s","i","t">>, <<"p","l","a","n">> } |->
     IF c = <<"a","g","e">> THEN AgeValues
     ELSE IF c = <<"g","e","n","d","e","r">> THEN GenderValues
     ELSE IF c = <<"l","a","s","t","_","v","i","s","i","t">> THEN VisitValues
     ELSE PlanValues]

\* two columns at once: two values each
PairValueSets ==
  [c \in { <<"a","g","e">>, <<"g","e","n","d","e","r">> } |->
     IF c = <<"a","g","e">> THEN { <<"4","0">>, <<"I","n","f","i","n","i","t","y">> } ELSE { <<"M">>, <<"F">> }]

\* the column lists and value sets of the runs
Scenarios ==
  { [members |-> << <<"a","g","e">> >>, contacts |-> << <<"a","g","e">> >>, values |-> ColumnValueSets],
    [members |-> << <<"g","e","n","d","e","r">> >>, contacts |-> << <<"g","e","n","d","e","r">> >>, values |-> ColumnValueSets],
    [members |-> << <<"l","a","s","t","_","v","i","s","i","t">> >>, contacts |-> << <<"l","a","s","t","_","v","i","s","i","t">> >>,
     values |-> ColumnValueSets],
    [members |-> << <<"p","l","a","n">> >>, contacts |-> << <<"p","l","a","n">> >>, values |-> ColumnValueSets],
    [members |-> << <<"g","e","n","d","e","r">>, <<"a","g","e">> >>, contacts |-> << <<"g","e","n","d","e","r">>, <<"a","g","e">> >>,
     values |-> PairValueSets],
    [members |-> << <<"g","e","n","d","e","r">>, <<"a","g","e">> >>, contacts |-> << <<"a","g","e">> >>,
     values |-> PairValueSets],
    [members |-> << <<"g","e","n","d","e","r">> >>, contacts |-> << <<"a","g","e">> >>, values |-> PairValueSets] }

\* readings of the clock: noon of 2026-01-25 and midnight of 2026-02-04
ClockReadings ==
  { Num(DaysFromCivil(2026, 1, 25) * TicksPerDay + TicksPerDay \div 2),
    Num(DaysFromCivil(2026, 2, 4) * TicksPerDay) }

FirstClockReading == Num(DaysFromCivil(2026, 1, 25) * TicksPerDay + TicksPerDay \div 2)

\* the number of copies of a record in a large dataset
BulkSize == 10

\* the inputs of a run of scenario sc: lists of at most maxMembers and
\* maxContacts records, or BulkSize
\* copies of one member record and BulkSize copies of one contact record
InputsOf(sc, maxMembers, maxContacts) ==
  /\ memberColumns = sc.members
  /\ contactColumns = sc.contacts
  /\ \/ /\ memberData \in SeqsUpTo(RecordsOver(sc.members, sc.values), maxMembers)
        /\ contactData \in SeqsUpTo(RecordsOver(sc.contacts, sc.values), maxContacts)
     \/ /\ Len(sc.members) = 1
        /\ memberData \in { [i \in 1..BulkSize |-> r] :
                               r \in RecordsOver(sc.members, sc.values) }
        /\ contactData \in { [i \in 1..BulkSize |-> r] :
                                r \in RecordsOver(sc.contacts, sc.values) }

\* the callback of runAnalysis is about to call analyzeAndPredict
Init ==
  /\ \E sc \in Scenarios : InputsOf(sc, MaxMembers, MaxContacts)
  /\ now = FirstClockReading
  /\ runs = 1
  /\ previous = <<>>
  /\ pc = "start"
  /\ LocalsUnset
  /\ step = "analyzing" /\ error = "" /\ analysisResult = <<>>
  /\ GeoIdle

\* allData.map(d => d.data) and allData.map(d => d.label)
allRecords == memberData \o contactData

labels == [i \in 1..(Len(memberData) + Len(contactData)) |->
             IF i <= Len(memberData) THEN 1 ELSE 0]

NumLabels == [i \in DOMAIN labels |-> Num(labels[i])]

\* the member columns, unfiltered
CommonColumnsMutant(mcols, ccols) == mcols

\* memberColumns.filter(c => contactColumns.includes(c))
CommonColumns(mcols, ccols) ==
  LET idx == SelectIdx([i \in DOMAIN mcols |-> Member(mcols[i], ccols)], 1, Len(mcols))
  IN  [k \in DOMAIN idx |-> mcols[idx[k]]]

\* the message of the Error thrown when no column is common
NoCommonColumnsMessage ==
  "No common columns found between member and contact lists. Please ensure both CSVs share at least some column headers."

\* the common columns, or the throw when there is none
CheckColumns ==
  /\ pc = "start"
  /\ LET common == CommonColumns(memberColumns, contactColumns)
     IN  IF Len(common) = 0
         THEN /\ thrown' = NoCommonColumnsMessage
              /\ pc' = "threw"
              /\ UNCHANGED commonColumns
         ELSE /\ commonColumns' = common
              /\ pc' = "preprocess"
              /\ UNCHANGED thrown
  /\ UNCHANGED <<matrix, featureNames, columnTypes, normalized, weights, bias, iter,
                 modelAccuracy, featureImportances, binarySupplements, predictions,
                 result>>
  /\ UNCHANGED <<geoVars, inputVars, appVars, rerunVars>>

\* preprocessData(allRecords, commonColumns)
Preprocess ==
  /\ pc = "preprocess"
  /\ \E pre \in {preprocessData(allRecords, commonColumns, now)} :
        /\ matrix' = pre.matrix
        /\ featureNames' = pre.featureNames
        /\ columnTypes' = pre.columnTypes
  /\ pc' = "normalize"
  /\ UNCHANGED <<commonColumns, normalized, weights, bias, iter, modelAccuracy,
                 featureImportances, binarySupplements, predictions, result, thrown>>
  /\ UNCHANGED <<geoVars, inputVars, appVars, rerunVars>>

\* normalizeMatrix(matrix) and the start of trainLogisticRegression
Normalize ==
  /\ pc = "normalize"
  /\ normalized' = normalizeMatrix(matrix).normalized
  /\ weights' = ZeroWeights(normalized')
  /\ bias' = Num(0)
  /\ iter' = 0
  /\ pc' = "train"
  /\ UNCHANGED <<commonColumns, matrix, featureNames, columnTypes, modelAccuracy,
                 featureImportances, binarySupplements, predictions, result, thrown>>
  /\ UNCHANGED <<geoVars, inputVars, appVars, rerunVars>>

\* one pass of the training loop
TrainStep ==
  /\ pc = "train"
  /\ iter < Iterations
  /\ \E next \in {TrainIteration(normalized, labels, weights, bias,
                                  learningRate, lambda)} :
        /\ weights' = next.weights
        /\ bias' = next.bias
  /\ iter' = iter + 1
  /\ UNCHANGED <<pc, commonColumns, matrix, featureNames, columnTypes, normalized,
                 modelAccuracy, featureImportances, binarySupplements, predictions,
                 result, thrown>>
  /\ UNCHANGED <<geoVars, inputVars, appVars, rerunVars>>

\* the end of the training loop and the model accuracy
Accuracy ==
  /\ pc = "train"
  /\ iter = Iterations
  /\ modelAccuracy' = ModelAccuracy(normalized, labels, weights, bias)
  /\ pc' = "importance"
  /\ UNCHANGED <<commonColumns, matrix, featureNames, columnTypes, normalized,
                 weights, bias, iter, featureImportances, binarySupplements,
                 predictions, result, thrown>>
  /\ UNCHANGED <<geoVars, inputVars, appVars, rerunVars>>

\* featureNames.map(...): one entry per feature
Importances ==
  /\ pc = "importance"
  /\ featureImportances' =
       FeatureImportances(featureNames, normalized, NumLabels, Len(memberData),
                          weights, columnTypes, allRecords, now)
  /\ pc' = "binary"
  /\ UNCHANGED <<commonColumns, matrix, featureNames, columnTypes, normalized,
                 weights, bias, iter, modelAccuracy, binarySupplements, predictions,
                 result, thrown>>
  /\ UNCHANGED <<geoVars, inputVars, appVars, rerunVars>>

\* the renaming of the binary entries and their complementary entries
BinaryPostProcess ==
  /\ pc = "binary"
  /\ \E post \in {BinaryPost(commonColumns, columnTypes, featureImportances,
                             allRecords, now)} :
        /\ featureImportances' = post.featureImportances
        /\ binarySupplements' = post.binarySupplements
  /\ pc' = "group"
  /\ UNCHANGED <<commonColumns, matrix, featureNames, columnTypes, normalized,
                 weights, bias, iter, modelAccuracy, predictions, result, thrown>>
  /\ UNCHANGED <<geoVars, inputVars, appVars, rerunVars>>

\* finalImportances, the groups by base column and their sort
GroupSort ==
  /\ pc = "group"
  /\ featureImportances' =
       GroupAndSort(InsertSupplements(featureImportances, 1, binarySupplements, <<>>))
  /\ pc' = "predict"
  /\ UNCHANGED <<commonColumns, matrix, featureNames, columnTypes, normalized,
                 weights, bias, iter, modelAccuracy, binarySupplements, predictions,
                 result, thrown>>
  /\ UNCHANGED <<geoVars, inputVars, appVars, rerunVars>>

\* normalized.slice(memberData.length)
ContactMatrix == SubSeq(normalized, Len(memberData) + 1, Len(normalized))

\* the predictions and their sort
Predict ==
  /\ pc = "predict"
  /\ predictions' = Predictions(contactData, ContactMatrix, weights, bias, featureNames)
  /\ pc' = "return"
  /\ UNCHANGED <<commonColumns, matrix, featureNames, columnTypes, normalized,
                 weights, bias, iter, modelAccuracy, featureImportances,
                 binarySupplements, result, thrown>>
  /\ UNCHANGED <<geoVars, inputVars, appVars, rerunVars>>

\* the return statement of analyzeAndPredict
Return ==
  /\ pc = "return"
  /\ result' = [ featureImportances |-> PositiveImportance(featureImportances),
                 predictions |-> predictions,
                 modelAccuracy |-> modelAccuracy,
                 totalMembers |-> Len(memberData),
                 totalContacts |-> Len(contactData) ]
  /\ pc' = "done"
  /\ UNCHANGED <<commonColumns, matrix, featureNames, columnTypes, normalized,
                 weights, bias, iter, modelAccuracy, featureImportances,
                 binarySupplements, predictions, thrown>>
  /\ UNCHANGED <<geoVars, inputVars, appVars, rerunVars>>

\* runAnalysis, after the call returned: setAnalysisResult(result); setStep('results')
StoreResult ==
  /\ pc = "done"
  /\ analysisResult' = result
  /\ step' = "results"
  /\ pc' = "stored"
  /\ UNCHANGED error
  /\ UNCHANGED <<geoVars, inputVars, localVars, rerunVars>>

\* a catch block that shows the results step
CatchErrorMutant ==
  /\ pc = "threw"
  /\ error' = thrown
  /\ step' = "results"
  /\ pc' = "caught"
  /\ UNCHANGED analysisResult
  /\ UNCHANGED <<geoVars, inputVars, localVars, rerunVars>>

\* runAnalysis, the catch block: setError(e.message); setStep('upload')
CatchError ==
  /\ pc = "threw"
  /\ error' = thrown
  /\ step' = "upload"
  /\ pc' = "caught"
  /\ UNCHANGED analysisResult
  /\ UNCHANGED <<geoVars, inputVars, localVars, rerunVars>>

Next ==
  \/ CheckColumns
  \/ Preprocess
  \/ Normalize
  \/ TrainStep
  \/ Accuracy
  \/ Importances
  \/ BinaryPostProcess
  \/ GroupSort
  \/ Predict
  \/ Return
  \/ StoreResult
  \/ CatchError

Spec == Init /\ [][Next]_vars

(***************************************************************************)
(* PREPROCESSING RUNS                                                      *)
(*                                                                         *)
(* The first two phases of analyzeAndPredict on one categorical column     *)
(* with about MaxCategories distinct values.                               *)
(***************************************************************************)

\* distinct category values, none of them a number, a date or a boolean word
CategoryPool ==
  << <<"a">>, <<"b">>, <<"c">>, <<"d">>, <<"e">>, <<"g">>, <<"h">>, <<"i">>, <<"j">>, <<"k">>, <<"l">>,
     <<"o">>, <<"p">>, <<"q">>, <<"r">>, <<"s">>, <<"t">>, <<"u">>, <<"v">>, <<"w">>, <<"x">>, <<"z">> >>

\* count values of the pool, taken cyclically from position first on
PoolValues(first, count) ==
  [i \in 1..count |-> CategoryPool[((first + i - 2) % Len(CategoryPool)) + 1]]

\* the one-column records of the values vs
PlanRecords(vs) == [i \in DOMAIN vs |-> [c \in { <<"p","l","a","n">> } |-> vs[i]]]

PreInit ==
  /\ memberColumns = << <<"p","l","a","n">> >>
  /\ contactColumns = << <<"p","l","a","n">> >>
  /\ \E count \in (MaxCategories - 1)..Len(CategoryPool) :
     \E first \in { 1, 2, Len(CategoryPool) } :
       LET main == PoolValues(first, count)
       IN  \E lead \in { <<>>, << <<>> >>, << main[2] >> } :
           \E trail \in { <<>>, << <<>> >>, << main[1] >>, << main[count] >>,
                          << <<" ">> \o main[count] \o <<" ">> >> } :
           \E members \in { 0, 1, MaxCategories, Len(lead) + count + Len(trail) } :
             LET all == PlanRecords(lead \o main \o trail)
             IN  /\ memberData = SubSeq(all, 1, Min2(members, Len(all)))
                 /\ contactData = SubSeq(all, Min2(members, Len(all)) + 1, Len(all))
  /\ now = FirstClockReading
  /\ runs = 1
  /\ previous = <<>>
  /\ pc = "start"
  /\ LocalsUnset
  /\ step = "analyzing" /\ error = "" /\ analysisResult = <<>>
  /\ GeoIdle

PreNext ==
  \/ CheckColumns
  \/ Preprocess

PreSpec == PreInit /\ [][PreNext]_vars

(***************************************************************************)
(* GROUPED COLUMN RUNS                                                     *)
(*                                                                         *)
(* Whole runs of analyzeAndPredict on a categorical column and an age      *)
(* column, with category values that contain " (" or "::".                 *)
(***************************************************************************)

GroupPlanValues == { <<"a">>, <<"b"," ","(","c",")">>, <<"d",":",":","e">> }

GroupAgeValues == { <<"4","0">>, <<"2","2">> }

GroupValueSets ==
  [c \in { <<"p","l","a","n">>, <<"a","g","e">> } |-> IF c = <<"p","l","a","n">> THEN GroupPlanValues ELSE GroupAgeValues]

GroupInit ==
  /\ memberColumns = << <<"p","l","a","n">>, <<"a","g","e">> >>
  /\ contactColumns = << <<"p","l","a","n">>, <<"a","g","e">> >>
  /\ memberData \in SeqsUpTo(RecordsOver(<< <<"p","l","a","n">>, <<"a","g","e">> >>, GroupValueSets), MaxMembers)
  /\ contactData \in SeqsUpTo(RecordsOver(<< <<"p","l","a","n">>, <<"a","g","e">> >>, GroupValueSets), MaxContacts)
  /\ now = FirstClockReading
  /\ runs = 1
  /\ previous = <<>>
  /\ pc = "start"
  /\ LocalsUnset
  /\ step = "analyzing" /\ error = "" /\ analysisResult = <<>>
  /\ GeoIdle

GroupNext ==
  \/ CheckColumns
  \/ Preprocess
  \/ Normalize
  \/ TrainStep
  \/ Accuracy
  \/ Importances
  \/ BinaryPostProcess
  \/ GroupSort
  \/ Predict
  \/ Return

GroupSpec == GroupInit /\ [][GroupNext]_vars

(***************************************************************************)
(* REPEATED RUNS                                                           *)
(*                                                                         *)
(* analyzeAndPredict called again on the same inputs, at the same or at    *)
(* another reading of the clock.                                           *)
(***************************************************************************)

\* the number of runs on the same inputs
MaxRuns == 2

JoinedValues == { <<"2","0","2","6","-","0","1","-","0","5">>, <<"2","0","2","6","-","0","1","-","2","0">>, <<>> }

DateValueSets ==
  [c \in { <<"l","a","s","t","_","v","i","s","i","t">>, <<"j","o","i","n","e","d">> } |->
     IF c = <<"l","a","s","t","_","v","i","s","i","t">> THEN VisitValues ELSE JoinedValues]

\* runs on one column of dates
DateScenarios ==
  { [members |-> << <<"l","a","s","t","_","v","i","s","i","t">> >>, contacts |-> << <<"l","a","s","t","_","v","i","s","i","t">> >>,
     values |-> DateValueSets],
    [members |-> << <<"j","o","i","n","e","d">> >>, contacts |-> << <<"j","o","i","n","e","d">> >>,
     values |-> DateValueSets] }

RerunInit ==
  /\ \E sc \in DateScenarios : InputsOf(sc, MaxMembers, 1)
  /\ now = FirstClockReading
  /\ runs = 1
  /\ previous = <<>>
  /\ pc = "start"
  /\ LocalsUnset
  /\ step = "analyzing" /\ error = "" /\ analysisResult = <<>>
  /\ GeoIdle

\* the next call of analyzeAndPredict on the same inputs: what the run before
\* returned is kept for comparison, the locals are those of a new call
Rerun ==
  /\ pc = "done"
  /\ runs < MaxRuns
  /\ previous' = [result |-> result, weights |-> weights, bias |-> bias, now |-> now]
  /\ now' \in ClockReadings
  /\ runs' = runs + 1
  /\ pc' = "start"
  /\ commonColumns' = <<>>
  /\ matrix' = <<>>
  /\ featureNames' = <<>>
  /\ columnTypes' = <<>>
  /\ normalized' = <<>>
  /\ weights' = <<>>
  /\ bias' = Num(0)
  /\ iter' = 0
  /\ modelAccuracy' = Num(0)
  /\ featureImportances' = <<>>
  /\ binarySupplements' = <<>>
  /\ predictions' = <<>>
  /\ result' = <<>>
  /\ thrown' = ""
  /\ UNCHANGED <<geoVars, inputVars, appVars>>

RerunNext ==
  \/ CheckColumns
  \/ Preprocess
  \/ Normalize
  \/ TrainStep
  \/ Accuracy
  \/ Importances
  \/ BinaryPostProcess
  \/ GroupSort
  \/ Predict
  \/ Return
  \/ Rerun

RerunSpec == RerunInit /\ [][RerunNext]_vars

(***************************************************************************)
(* BINARY COLUMN RUNS                                                      *)
(*                                                                         *)
(* Whole runs of analyzeAndPredict on one gender column whose values are   *)
(* words of the built-in vocabulary, numeric codes or other strings.       *)
(***************************************************************************)

BinaryGenderValues == { <<"M">>, <<"F">>, <<"1">>, <<"2">>, <<"x">> }

BinaryInit ==
  /\ memberColumns = << <<"g","e","n","d","e","r">> >>
  /\ contactColumns = << <<"g","e","n","d","e","r">> >>
  /\ memberData \in SeqsUpTo(RecordsOver(<< <<"g","e","n","d","e","r">> >>,
                                         [c \in { <<"g","e","n","d","e","r">> } |-> BinaryGenderValues]),
                             MaxMembers)
  /\ contactData \in SeqsUpTo(RecordsOver(<< <<"g","e","n","d","e","r">> >>,
                                          [c \in { <<"g","e","n","d","e","r">> } |-> BinaryGenderValues]),
                              MaxContacts)
  /\ now = FirstClockReading
  /\ runs = 1
  /\ previous = <<>>
  /\ pc = "start"
  /\ LocalsUnset
  /\ step = "analyzing" /\ error = "" /\ analysisResult = <<>>
  /\ GeoIdle

BinaryNext ==
  \/ CheckColumns
  \/ Preprocess
  \/ Normalize
  \/ TrainStep
  \/ Accuracy
  \/ Importances
  \/ BinaryPostProcess
  \/ GroupSort
  \/ Predict
  \/ Return

BinarySpec == BinaryInit /\ [][BinaryNext]_vars

(***************************************************************************)
(* RUNS WITH FIELDS THAT ARE NOT INCLUDED                                  *)
(*                                                                         *)
(* analyzeAndPredict called on records with the fields age and gender,     *)
(* with the column gender left out of one or of both column lists, and     *)
(* called again on records that differ in the values of gender only.       *)
(***************************************************************************)

\* the largest number of member records and of contact records
MaxListed == 1

ExcludedFieldNames == << <<"a","g","e">>, <<"g","e","n","d","e","r">> >>

ExcludedValueSets ==
  [c \in { <<"a","g","e">>, <<"g","e","n","d","e","r">> } |->
     IF c = <<"a","g","e">> THEN { <<"4","0">>, <<"2","2">> } ELSE { <<"M">>, <<"F">> }]

\* the column lists: gender is in neither, or in the member list only
ExcludedColumnLists ==
  { [members |-> << <<"a","g","e">> >>, contacts |-> << <<"a","g","e">> >>],
    [members |-> << <<"g","e","n","d","e","r">>, <<"a","g","e">> >>, contacts |-> << <<"a","g","e">> >>] }

\* the lists of records that differ from data in values of gender at most
SameButGender(data) ==
  { other \in [DOMAIN data -> RecordsOver(ExcludedFieldNames, ExcludedValueSets)] :
      \A i \in DOMAIN data : other[i][<<"a","g","e">>] = data[i][<<"a","g","e">>] }

ExcludedInit ==
  /\ \E lists \in ExcludedColumnLists :
       /\ memberColumns = lists.members
       /\ contactColumns = lists.contacts
  /\ memberData \in SeqsUpTo(RecordsOver(ExcludedFieldNames, ExcludedValueSets), MaxListed)
  /\ contactData \in SeqsUpTo(RecordsOver(ExcludedFieldNames, ExcludedValueSets), MaxListed)
  /\ now = FirstClockReading
  /\ runs = 1
  /\ previous = <<>>
  /\ pc = "start"
  /\ LocalsUnset
  /\ step = "analyzing" /\ error = "" /\ analysisResult = <<>>
  /\ GeoIdle

\* the next call of analyzeAndPredict, on records with other values of
\* gender: what the run before returned is kept for comparison
RerunOnOtherValues ==
  /\ pc = "done"
  /\ runs = 1
  /\ previous' = [result |-> result, weights |-> weights, bias |-> bias, now |-> now,
                  memberData |-> memberData, contactData |-> contactData]
  /\ memberData' \in SameButGender(memberData)
  /\ contactData' \in SameButGender(contactData)
  /\ runs' = runs + 1
  /\ pc' = "start"
  /\ commonColumns' = <<>>
  /\ matrix' = <<>>
  /\ featureNames' = <<>>
  /\ columnTypes' = <<>>
  /\ normalized' = <<>>
  /\ weights' = <<>>
  /\ bias' = Num(0)
  /\ iter' = 0
  /\ modelAccuracy' = Num(0)
  /\ featureImportances' = <<>>
  /\ binarySupplements' = <<>>
  /\ predictions' = <<>>
  /\ result' = <<>>
  /\ thrown' = ""
  /\ UNCHANGED <<geoVars, memberColumns, contactColumns, learningRate, lambda, uploadVars,
                 appVars, now>>

ExcludedNext ==
  \/ CheckColumns
  \/ Preprocess
  \/ Normalize
  \/ TrainStep
  \/ Accuracy
  \/ Importances
  \/ BinaryPostProcess
  \/ GroupSort
  \/ Predict
  \/ Return
  \/ RerunOnOtherValues

ExcludedSpec == ExcludedInit /\ [][ExcludedNext]_vars

(***************************************************************************)
(* COLUMN TYPE RUNS                                                        *)
(*                                                                         *)
(* The first two phases of analyzeAndPredict on one column whose values    *)
(* are a number of copies of a boolean word, a number or a date, followed  *)
(* by copies of a word that is none of them.                               *)
(***************************************************************************)

\* the largest number of non-empty values of the column
MaxValues == 10

\* the names of the column
TypeColumnNames ==
  { <<"a","g","e">>, <<"g","e","n","d","e","r">>, <<"d","i","s","t","a","n","c","e","_","m","i">>, <<"s","c","o","r","e">>, <<"l","a","s","t","_","v","i","s","i","t">>, <<"j","o","i","n","e","d">> }

\* a boolean word, a number and a date
TypeValueKinds == { <<"Y","e","s">>, <<"4","2">>, <<"2","0","2","6","-","0","1","-","0","5">> }

\* a value that is no boolean word, no number and no date
PlainWord == <<"a","b","c">>

\* n copies of the value v
Copies(v, n) == [i \in 1..n |-> v]

\* the one-column records of the values vs
ColumnRecords(col, vs) == [i \in DOMAIN vs |-> [c \in {col} |-> vs[i]]]

TypeInit ==
  /\ \E col \in TypeColumnNames :
     \E kind \in TypeValueKinds :
     \E n \in 0..MaxValues :
     \E k \in 0..n :
     \E lead \in { <<>>, << <<>> >>, << <<" "," ">> >> } :
       /\ memberColumns = <<col>>
       /\ contactColumns = <<col>>
       /\ memberData = ColumnRecords(col, lead \o Copies(kind, k))
       /\ contactData = ColumnRecords(col, Copies(PlainWord, n - k))
  /\ now = FirstClockReading
  /\ runs = 1
  /\ previous = <<>>
  /\ pc = "start"
  /\ LocalsUnset
  /\ step = "analyzing" /\ error = "" /\ analysisResult = <<>>
  /\ GeoIdle

TypeNext ==
  \/ CheckColumns
  \/ Preprocess

TypeSpec == TypeInit /\ [][TypeNext]_vars

(***************************************************************************)
(* TRAINING RUNS                                                           *)
(*                                                                         *)
(* analyzeAndPredict up to the end of the training loop on one numeric     *)
(* column, for several learning rates and L2 factors.                      *)
(***************************************************************************)

TrainAgeValues == { <<"2","2">>, <<"3","1">>, <<"4","0">> }

\* the arguments learningRate and lambda of trainLogisticRegression
LearningRates == { LearningRate, Num(1) }

Lambdas == { Lambda, Num(1), Num(2) }

TrainInit ==
  /\ memberColumns = << <<"a","g","e">> >>
  /\ contactColumns = << <<"a","g","e">> >>
  /\ memberData \in SeqsUpTo(RecordsOver(<< <<"a","g","e">> >>, [c \in { <<"a","g","e">> } |-> TrainAgeValues]),
                             MaxMembers)
  /\ contactData \in SeqsUpTo(RecordsOver(<< <<"a","g","e">> >>, [c \in { <<"a","g","e">> } |-> TrainAgeValues]),
                              MaxContacts)
  /\ learningRate \in LearningRates
  /\ lambda \in Lambdas
  /\ now = FirstClockReading
  /\ runs = 1
  /\ previous = <<>>
  /\ pc = "start"
  /\ RunLocalsUnset
  /\ step = "analyzing" /\ error = "" /\ analysisResult = <<>>
  /\ GeoIdle

TrainNext ==
  \/ CheckColumns
  \/ Preprocess
  \/ Normalize
  \/ TrainStep
  \/ Accuracy

TrainSpec == TrainInit /\ [][TrainNext]_vars

(***************************************************************************)
(* FACTOR RUNS                                                             *)
(*                                                                         *)
(* Whole runs of analyzeAndPredict on one categorical column with few or   *)
(* with more than MaxFactors distinct values, one record per value.        *)
(***************************************************************************)

\* the largest number of distinct values of the column
ManyCategories == 12

FactorInit ==
  /\ memberColumns = << <<"p","l","a","n">> >>
  /\ contactColumns = << <<"p","l","a","n">> >>
  /\ \E count \in { 3, MaxFactors, ManyCategories - 1, ManyCategories } :
     \E first \in { 1, 2 } :
     \E members \in 1..(count - 1) :
     \E trail \in { <<>>, << PoolValues(first, count)[count] >> } :
       /\ memberData = PlanRecords(PoolValues(first, members))
       /\ contactData = PlanRecords(PoolValues(first + members, count - members) \o trail)
  /\ now = FirstClockReading
  /\ runs = 1
  /\ previous = <<>>
  /\ pc = "start"
  /\ LocalsUnset
  /\ step = "analyzing" /\ error = "" /\ analysisResult = <<>>
  /\ GeoIdle

FactorNext ==
  \/ CheckColumns
  \/ Preprocess
  \/ Normalize
  \/ TrainStep
  \/ Accuracy
  \/ Importances
  \/ BinaryPostProcess
  \/ GroupSort
  \/ Predict
  \/ Return

FactorSpec == FactorInit /\ [][FactorNext]_vars


(***************************************************************************)
(* ENRICHMENT RUNS                                                         *)
(*                                                                         *)
(* The address field is detected from the headers of the loaded datasets   *)
(* and one list of rows is enriched with it.                               *)
(***************************************************************************)

\* the largest number of headers of a dataset and of rows enriched
MaxHeaders == 3

MaxRows == 2

HeaderNames ==
  { <<"n","a","m","e">>, <<"A","d","d","r","e","s","s">>, <<"s","t","r","e","e","t">>, <<"L","o","c","a","t","i","o","n">>, <<"H","o","m","e"," ","A","d","d","r","e","s","s">>,
    <<"e","m","a","i","l","_","a","d","d","r","e","s","s">>, <<"c","o","l","u","m","b","i","a","_","r","e","s","i","d","e","n","t">> }

\* the header lists without repeated headers
HeaderLists ==
  { hs \in SeqsUpTo(HeaderNames, MaxHeaders) :
      \A i, j \in DOMAIN hs : i # j => hs[i] # hs[j] }

\* a resident by ZIP, a non-resident that is geocoded, an address in
\* Maryland that cannot be geocoded, an unknown address, an address whose
\* city part names an inherited property and no address
SampleAddresses ==
  { <<"1","2","3"," ","M","a","i","n"," ","S","t",","," ","C","o","l","u","m","b","i","a",","," ","M","D"," ","2","1","0","4","4">>, <<"1"," ","P","a","r","k"," ","A","v","e",","," ","B","a","l","t","i","m","o","r","e",","," ","M","D"," ","2","1","2","0","1">>,
    <<"5"," ","E","l","m"," ","S","t",","," ","S","p","r","i","n","g","f","i","e","l","d",","," ","M","D">>, <<"9"," ","O","a","k"," ","S","t",","," ","S","p","r","i","n","g","f","i","e","l","d">>,
    <<"1","2"," ","E","l","m"," ","S","t",","," ","c","o","n","s","t","r","u","c","t","o","r">>, <<>> }

\* the row with the fields hs: value under every header that the address
\* patterns match, "x" under any other
RowOver(hs, value) ==
  [f \in Range(hs) |->
     IF \E p \in 1..NumAddressPatterns : MatchesPattern(p, f) THEN value ELSE <<"x">>]

\* the rows with the fields hs for the address values vs
RowsOver(hs, vs) == [i \in DOMAIN vs |-> RowOver(hs, vs[i])]

EnrichInit ==
  /\ \/ \E hs \in HeaderLists :
        \E other \in { <<>>, << << <<"A","d","d","r","e","s","s">> >> >> } :
        \E first \in BOOLEAN :
          /\ memberHeaders = IF first THEN <<hs>> ELSE other
          /\ contactHeaders = IF first THEN other ELSE <<hs>>
          /\ rows = RowsOver(hs, << <<"1"," ","P","a","r","k"," ","A","v","e",","," ","B","a","l","t","i","m","o","r","e",","," ","M","D"," ","2","1","2","0","1">> >>)
     \/ \E hs \in { << <<"n","a","m","e">>, <<"A","d","d","r","e","s","s">> >>, << <<"A","d","d","r","e","s","s">>, <<"c","o","l","u","m","b","i","a","_","r","e","s","i","d","e","n","t">> >>,
                    << <<"n","a","m","e">> >> } :
        \E vs \in SeqsUpTo(SampleAddresses, MaxRows) :
          /\ memberHeaders = << << <<"n","a","m","e">>, <<"A","d","d","r","e","s","s">> >> >>
          /\ contactHeaders = <<hs>>
          /\ rows = RowsOver(hs, vs)
  /\ addressField = <<>>
  /\ enriched = <<>>
  /\ enrichPc = "start"
  /\ address = <<>> /\ geoPc = "idle" /\ analysis = <<>> /\ coords = <<>>
  /\ EngineIdle

\* App's useMemo of addressField
DetectField ==
  /\ enrichPc = "start"
  /\ addressField' = AppAddressField(memberHeaders, contactHeaders)
  /\ enrichPc' = "detected"
  /\ UNCHANGED <<memberHeaders, contactHeaders, rows, enriched>>
  /\ UNCHANGED <<address, geoPc, analysis, coords, engineVars>>

\* runAnalysis: enrichWithColumbiaData(rows, addressField) when an address
\* field was detected
Enrich ==
  /\ enrichPc = "detected"
  /\ addressField # <<>>
  /\ enriched' = enrichWithColumbiaData(rows, addressField[1])
  /\ enrichPc' = "enriched"
  /\ UNCHANGED <<memberHeaders, contactHeaders, addressField, rows>>
  /\ UNCHANGED <<address, geoPc, analysis, coords, engineVars>>

EnrichNext ==
  \/ DetectField
  \/ Enrich

EnrichSpec == EnrichInit /\ [][EnrichNext]_vars

(***************************************************************************)
(* CLAIMS                                                                  *)
(***************************************************************************)

\* address holds a 5-digit ZIP code (a match of the ZIP pattern) of the target set
HasTargetZip(a) ==
  \E i \in 1..Len(a) : ZipMatchAt(a, i) /\ Member(SubSeq(a, i, i + 4), COLUMBIA_ZIPS)

\* C2: an address that contains a target ZIP code is classified Resident with
\* distance 0 and confidence high, whatever else it contains and wherever
\* the ZIP appears.
C2_TargetZipAlwaysResident ==
  (geoPc = "done" /\ HasTargetZip(address)) =>
    /\ analysis.isResident
    /\ analysis.residencyStatus = "Resident"
    /\ analysis.distanceFromBorder = <<0>>
    /\ analysis.confidence = "high"

EdgeDistances(p) ==
  { distanceToSegment(p, COLUMBIA_BOUNDARY[i],
                      COLUMBIA_BOUNDARY[(i % Len(COLUMBIA_BOUNDARY)) + 1]) :
      i \in DOMAIN COLUMBIA_BOUNDARY }

IsMinimum(d, S) == d \in S /\ \A e \in S : d <= e

\* p lies strictly inside the boundary, which is convex: p is strictly on the
\* same side of every edge
StrictlyInside(p) ==
  LET n == Len(COLUMBIA_BOUNDARY)
      side(i) == LET a == COLUMBIA_BOUNDARY[i]
                     b == COLUMBIA_BOUNDARY[(i % n) + 1]
                 IN  (b.lat - a.lat) * (p.lng - a.lng) - (b.lng - a.lng) * (p.lat - a.lat)
  IN  (\A i \in 1..n : side(i) > 0) \/ (\A i \in 1..n : side(i) < 0)

\* p lies on no edge line of the boundary
OffBoundary(p) ==
  LET n == Len(COLUMBIA_BOUNDARY)
  IN  \A i \in 1..n :
        LET a == COLUMBIA_BOUNDARY[i]
            b == COLUMBIA_BOUNDARY[(i % n) + 1]
        IN  (b.lat - a.lat) * (p.lng - a.lng) # (b.lng - a.lng) * (p.lat - a.lat)

\* C9 as stated: a geocoded point strictly inside the boundary gives Resident
\* with distance 0; a point outside gives Non-Resident with a strictly positive
\* distance equal to the minimum over the edges of the point-to-segment distance.
C9_DistanceIsEdgeMinimum ==
  (geoPc = "done" /\ coords # <<>> /\ IsPoint(coords[1]) /\ OffBoundary(coords[1])) =>
    IF StrictlyInside(coords[1])
    THEN analysis.residencyStatus = "Resident" /\ analysis.distanceFromBorder = <<0>>
    ELSE /\ analysis.residencyStatus = "Non-Resident"
         /\ analysis.distanceFromBorder # <<>>
         /\ analysis.distanceFromBorder[1] > 0
         /\ IsMinimum(analysis.distanceFromBorder[1], EdgeDistances(coords[1]))

\* C9 amended: as C9, the distance of a point outside being that minimum
\* rounded to one decimal of a mile (strictly positive for every point the
\* gazetteer can produce).
C9_DistanceIsRoundedEdgeMinimum ==
  (geoPc = "done" /\ coords # <<>> /\ IsPoint(coords[1]) /\ OffBoundary(coords[1])) =>
    IF StrictlyInside(coords[1])
    THEN analysis.residencyStatus = "Resident" /\ analysis.distanceFromBorder = <<0>>
    ELSE /\ analysis.residencyStatus = "Non-Resident"
         /\ analysis.distanceFromBorder # <<>>
         /\ analysis.distanceFromBorder[1] > 0
         /\ \E d \in EdgeDistances(coords[1]) :
              /\ IsMinimum(d, EdgeDistances(coords[1]))
              /\ analysis.distanceFromBorder[1] = 100 * ((d + 50) \div 100)

\* a point outside the boundary has been classified and its distance is not
\* a whole number of miles
C9_Witness ==
  /\ geoPc = "done"
  /\ coords # <<>>
  /\ IsPoint(coords[1])
  /\ ~StrictlyInside(coords[1])
  /\ analysis.distanceFromBorder # <<>>
  /\ analysis.distanceFromBorder[1] % 1000 # 0

\* a point inside the boundary has been classified
C9_WitnessInside == geoPc = "done" /\ coords # <<>> /\ IsPoint(coords[1]) /\ StrictlyInside(coords[1])

(***************************************************************************)
(* THE APPLICATION                                                         *)
(*                                                                         *)
(* The handlers of App on files of one column: the two upload cards and    *)
(* the completions of parseCSV, runAnalysis and its deferred callback,     *)
(* the download of the scored contacts and the reset.  A handler runs to   *)
(* its end before the next one starts; the completions of parseCSV and     *)
(* the callback of setTimeout are handlers of their own.  No file has an   *)
(* address column, so the callback does not enrich the records, and no     *)
(* header is excluded.                                                     *)
(***************************************************************************)

\* the largest number of files handed to the upload cards
MaxUploads == 3

\* the CSVData of a file with the one header col and the values vs
OneColumnFile(col, vs) ==
  [headers |-> <<col>>, rows |-> [i \in DOMAIN vs |-> [c \in {col} |-> vs[i]]]]

MemberFiles ==
  { OneColumnFile(<<"a","g","e">>, << <<"4","0">> >>), OneColumnFile(<<"a","g","e">>, << <<"2","2">>, <<"4","0">> >>) }

ContactFiles ==
  { OneColumnFile(<<"a","g","e">>, << <<"2","2">> >>), OneColumnFile(<<"a","g","e">>, << <<"3","0">>, <<"4","0">> >>),
    OneColumnFile(<<"p","l","a","n">>, << <<"g","o","l","d">> >>) }

\* a file that Papa.parse reports an error for
Unparsable == [headers |-> <<>>, rows |-> <<>>, unparsable |-> TRUE]

\* the message of the Error parseCSV rejects with
ParseErrorMessage == "Failed to parse CSV"

\* the message runAnalysis sets when no field is included
NoFieldsMessage ==
  "At least one field must be included for analysis. Please toggle on some fields."

\* the message of an exception of the runtime inside the callback
RuntimeErrorMessage == "Maximum call stack size exceeded"

\* the headers of a dataset as AppAddressField takes them
HeadersOf(csv) == IF csv = <<>> THEN <<>> ELSE << csv.headers >>

\* sharedFields: the member headers that are contact headers as well
SharedFields(member, contact) ==
  IF member = <<>> \/ contact = <<>> THEN <<>>
  ELSE CommonColumns(member.headers, contact.headers)

\* analysisFields with no excluded field: the shared fields and, when an
\* address field is detected, the synthetic Columbia fields
AnalysisFields(member, contact) ==
  IF AppAddressField(HeadersOf(member), HeadersOf(contact)) # <<>>
  THEN SharedFields(member, contact) \o
       SelectSeq(<< <<"c","o","l","u","m","b","i","a","_","r","e","s","i","d","e","n","t">>, <<"d","i","s","t","a","n","c","e","_","f","r","o","m","_","c","o","l","u","m","b","i","a","_","m","i">> >>,
                 LAMBDA f : ~Member(f, SharedFields(member, contact)))
  ELSE SharedFields(member, contact)

\* no handler is running: the engine is not inside the callback
NoCallback == pc \in {"idle", "timer", "stored", "caught"}

AppInit ==
  /\ EngineIdle
  /\ GeoIdle

\* handleMemberUpload and handleContactUpload up to the await: setError(null)
\* and the call of parseCSV
HandleUpload(card, files) ==
  /\ step = "upload"
  /\ NoCallback
  /\ uploads < MaxUploads
  /\ \E file \in files \cup {Unparsable} :
       parsing' = parsing \cup { [card |-> card, file |-> file] }
  /\ uploads' = uploads + 1
  /\ error' = ""
  /\ UNCHANGED <<memberCsv, contactCsv, downloaded>>
  /\ UNCHANGED <<memberData, contactData, memberColumns, contactColumns, learningRate, lambda>>
  /\ UNCHANGED <<geoVars, localVars, rerunVars, pc, step, analysisResult>>

handleMemberUpload == HandleUpload("member", MemberFiles)

handleContactUpload == HandleUpload("contact", ContactFiles)

\* a call of parseCSV completes: setMemberData(data) or setContactData(data),
\* or the catch block with the message of the rejection
ParseCompletes ==
  /\ NoCallback
  /\ \E p \in parsing :
       /\ parsing' = parsing \ {p}
       /\ IF p.file = Unparsable
          THEN /\ error' = ParseErrorMessage
               /\ UNCHANGED <<memberCsv, contactCsv>>
          ELSE /\ memberCsv' = (IF p.card = "member" THEN p.file ELSE memberCsv)
               /\ contactCsv' = (IF p.card = "contact" THEN p.file ELSE contactCsv)
               /\ UNCHANGED error
  /\ UNCHANGED <<uploads, downloaded>>
  /\ UNCHANGED <<memberData, contactData, memberColumns, contactColumns, learningRate, lambda>>
  /\ UNCHANGED <<geoVars, localVars, rerunVars, pc, step, analysisResult>>

\* what a call of runAnalysis does to step and error, and whether it starts
\* the timer of the callback
RunAnalysisEffect ==
  IF memberCsv = <<>> \/ contactCsv = <<>>
  THEN [step |-> step, error |-> error, timer |-> FALSE]
  ELSE IF Len(AnalysisFields(memberCsv, contactCsv)) = 0
  THEN [step |-> step, error |-> NoFieldsMessage, timer |-> FALSE]
  ELSE [step |-> "analyzing", error |-> "", timer |-> TRUE]

\* runAnalysis: the callback it defers closes over the datasets and the
\* fields of this render
runAnalysis ==
  /\ step = "upload"
  /\ NoCallback
  /\ step' = RunAnalysisEffect.step
  /\ error' = RunAnalysisEffect.error
  /\ IF RunAnalysisEffect.timer
     THEN /\ pc' = "timer"
          /\ memberData' = memberCsv.rows
          /\ contactData' = contactCsv.rows
          /\ memberColumns' = AnalysisFields(memberCsv, contactCsv)
          /\ contactColumns' = AnalysisFields(memberCsv, contactCsv)
     ELSE UNCHANGED <<pc, memberData, contactData, memberColumns, contactColumns>>
  /\ UNCHANGED <<learningRate, lambda, uploadVars>>
  /\ UNCHANGED <<geoVars, localVars, rerunVars, analysisResult>>

\* the timer fires: the callback starts a call of analyzeAndPredict
TimerFires ==
  /\ pc = "timer"
  /\ pc' = "start"
  /\ now' = FirstClockReading
  /\ commonColumns' = <<>>
  /\ matrix' = <<>>
  /\ featureNames' = <<>>
  /\ columnTypes' = <<>>
  /\ normalized' = <<>>
  /\ weights' = <<>>
  /\ bias' = Num(0)
  /\ iter' = 0
  /\ modelAccuracy' = Num(0)
  /\ featureImportances' = <<>>
  /\ binarySupplements' = <<>>
  /\ predictions' = <<>>
  /\ result' = <<>>
  /\ thrown' = ""
  /\ UNCHANGED <<geoVars, inputVars, appVars, runs, previous>>

\* an exception of the runtime inside the try block of the callback, such as
\* the RangeError of a spread over more elements than a call takes
RuntimeError ==
  /\ pc = "importance"
  /\ thrown' = RuntimeErrorMessage
  /\ pc' = "threw"
  /\ UNCHANGED <<commonColumns, matrix, featureNames, columnTypes, normalized,
                 weights, bias, iter, modelAccuracy, featureImportances,
                 binarySupplements, predictions, result>>
  /\ UNCHANGED <<geoVars, inputVars, appVars, rerunVars>>

\* the prediction handleDownload finds for a row: the last one whose
\* original data has the row's values under the contact headers
MatchingPredictions(res, headers, row) ==
  SelectSeq(res.predictions,
            LAMBDA p : \A k \in DOMAIN headers :
                         OrEmpty(p.originalData, headers[k]) = OrEmpty(row, headers[k]))

\* the rows handleDownload writes: the contact rows held in state, each
\* with the score of its prediction, 0 when it has none
ScoredRows(res, csv) ==
  [idx \in DOMAIN csv.rows |->
     [ row |-> csv.rows[idx],
       Membership_Score |->
         IF MatchingPredictions(res, csv.headers, csv.rows[idx]) = <<>> THEN Num(0)
         ELSE MatchingPredictions(res, csv.headers, csv.rows[idx])[
                Len(MatchingPredictions(res, csv.headers, csv.rows[idx]))].score ]]

handleDownload ==
  /\ step = "results"
  /\ NoCallback
  /\ analysisResult # <<>> /\ contactCsv # <<>>
  /\ downloaded' = ScoredRows(analysisResult, contactCsv)
  /\ UNCHANGED <<memberCsv, contactCsv, parsing, uploads>>
  /\ UNCHANGED <<memberData, contactData, memberColumns, contactColumns, learningRate, lambda>>
  /\ UNCHANGED <<geoVars, localVars, rerunVars, pc, appVars>>

resetApp ==
  /\ step = "results"
  /\ NoCallback
  /\ memberCsv' = <<>>
  /\ contactCsv' = <<>>
  /\ analysisResult' = <<>>
  /\ step' = "upload"
  /\ error' = ""
  /\ UNCHANGED <<parsing, uploads, downloaded>>
  /\ UNCHANGED <<memberData, contactData, memberColumns, contactColumns, learningRate, lambda>>
  /\ UNCHANGED <<geoVars, localVars, rerunVars, pc>>

AppNext ==
  \/ handleMemberUpload
  \/ handleContactUpload
  \/ ParseCompletes
  \/ runAnalysis
  \/ TimerFires
  \/ CheckColumns
  \/ Preprocess
  \/ Normalize
  \/ TrainStep
  \/ Accuracy
  \/ Importances
  \/ RuntimeError
  \/ BinaryPostProcess
  \/ GroupSort
  \/ Predict
  \/ Return
  \/ StoreResult
  \/ CatchError
  \/ handleDownload
  \/ resetApp

AppSpec == AppInit /\ [][AppNext]_vars


(***************************************************************************)
(* ADDRESS FIELD DETECTION                                                 *)
(***************************************************************************)

\* the header list that App hands to detectAddressField, <<>> when no dataset
\* is loaded
DetectedFrom ==
  IF memberHeaders # <<>> THEN memberHeaders[1]
  ELSE IF contactHeaders # <<>> THEN contactHeaders[1]
  ELSE <<>>

\* the header matches one of the address patterns
MatchesAny(h) == \E p \in 1..NumAddressPatterns : MatchesPattern(p, h)

\* the field was detected
Detected == enrichPc \in {"detected", "enriched"}

\* C15 as stated: the detected field is the first header, in header order,
\* that matches any of the address patterns, and null when no header matches
C15_FirstMatchingHeader ==
  Detected =>
    IF \E i \in DOMAIN DetectedFrom : MatchesAny(DetectedFrom[i])
    THEN \E i \in DOMAIN DetectedFrom :
           /\ addressField = << DetectedFrom[i] >>
           /\ MatchesAny(DetectedFrom[i])
           /\ \A k \in 1..(i - 1) : ~MatchesAny(DetectedFrom[k])
    ELSE addressField = <<>>

\* C15, amended: the detected field matches the earliest pattern of the list
\* that any header matches and is the first header, in header order, that
\* matches this pattern; it is null when no header matches any pattern
C15_FirstHeaderOfFirstPattern ==
  Detected =>
    IF \E i \in DOMAIN DetectedFrom : MatchesAny(DetectedFrom[i])
    THEN \E i \in DOMAIN DetectedFrom :
         \E p \in 1..NumAddressPatterns :
           /\ addressField = << DetectedFrom[i] >>
           /\ MatchesPattern(p, DetectedFrom[i])
           /\ \A k \in 1..(i - 1) : ~MatchesPattern(p, DetectedFrom[k])
           /\ \A q \in 1..(p - 1) :
                \A k \in DOMAIN DetectedFrom : ~MatchesPattern(q, DetectedFrom[k])
    ELSE addressField = <<>>

\* C15 witness: a header that matches a later pattern stands before the
\* header detected
C15_Witness ==
  /\ Detected
  /\ addressField # <<>>
  /\ \E i \in DOMAIN DetectedFrom :
       /\ MatchesAny(DetectedFrom[i])
       /\ DetectedFrom[i] # addressField[1]
       /\ \E k \in DOMAIN DetectedFrom : k > i /\ DetectedFrom[k] = addressField[1]

(***************************************************************************)
(* THE NAME RULE                                                           *)
(***************************************************************************)

\* the call returned Resident from the name rule: the address is not blank,
\* the ZIP rule did not apply and the address was never geocoded
ResidentByNameRule ==
  /\ geoPc = "done"
  /\ ~IsBlank(address)
  /\ ~ZipRule(address)
  /\ analysis.isResident
  /\ coords = <<>>

\* the address names the state: "md" or "maryland" in any letter case
MentionsMaryland(addr) ==
  Includes(ToLowerCase(addr), S_md) \/ Includes(ToLowerCase(addr), S_maryland)

\* C16 as stated: an address without a target ZIP is Resident by the name
\* rule only when it names Columbia together with MD or Maryland; an address
\* of a Columbia of another state, in any spacing, never is
C16_NameRuleNeedsMaryland ==
  ResidentByNameRule =>
    Includes(ToLowerCase(address), S_columbia) /\ MentionsMaryland(address)

\* an address of Columbia, SC written without a space after the comma was
\* classified Resident by the name rule
ColumbiaSCResident ==
  /\ ResidentByNameRule
  /\ Includes(ToLowerCase(address), <<"c","o","l","u","m","b","i","a",",","s","c">>)
  /\ ~MentionsMaryland(address)

(***************************************************************************)
(* ENRICHMENT                                                              *)
(***************************************************************************)

\* the rows were enriched
Enriched == enrichPc = "enriched"

\* the analysis of a row's address
AnalysisOf(row) == analyzeColumbia(OrEmpty(row, addressField[1]))

\* the two added fields of the record out say what the analysis an found:
\* yes for a resident and no otherwise; 0 for a resident, the distance for a
\* non-resident with a distance, the empty string without one
AddedFieldsSay(out, an) ==
  /\ {ResidentField, DistanceField} \subseteq DOMAIN out
  /\ out[ResidentField] = IF an.isResident THEN <<"y","e","s">> ELSE <<"n","o">>
  /\ out[DistanceField] =
       IF an.isResident THEN <<"0">>
       ELSE IF an.distanceFromBorder # <<>> THEN DistanceToString(an.distanceFromBorder)
       ELSE <<>>

\* the record out has every field of the set fields with the value of row
KeepsFields(out, row, fields) ==
  \A f \in fields : f \in DOMAIN out /\ out[f] = row[f]

\* C17 as stated: one record per input record in the same order, each with
\* all of its original fields and the two added fields
C17_KeepsAllOriginalFields ==
  Enriched =>
    /\ Len(enriched) = Len(rows)
    /\ \A i \in DOMAIN rows :
         /\ KeepsFields(enriched[i], rows[i], DOMAIN rows[i])
         /\ AddedFieldsSay(enriched[i], AnalysisOf(rows[i]))

\* C17, amended: one record per input record in the same order, each with
\* its original fields other than columbia_resident and
\* distance_from_columbia_mi unchanged, no further field, and the two added
\* fields, which replace original fields of these names
C17_KeepsOtherFieldsAndAdds ==
  Enriched =>
    /\ Len(enriched) = Len(rows)
    /\ \A i \in DOMAIN rows :
         /\ DOMAIN enriched[i] = DOMAIN rows[i] \cup {ResidentField, DistanceField}
         /\ KeepsFields(enriched[i], rows[i], DOMAIN rows[i] \ {ResidentField, DistanceField})
         /\ AddedFieldsSay(enriched[i], AnalysisOf(rows[i]))

\* C17 witness: two rows were enriched, an address without a classification
\* as no with an empty distance and a geocoded non-resident as no with its
\* distance, and the rows had a column named columbia_resident
C17_Witness ==
  /\ Enriched
  /\ Len(rows) = 2
  /\ ResidentField \in DOMAIN rows[1]
  /\ AnalysisOf(rows[1]).residencyStatus = "Unknown"
  /\ enriched[1][ResidentField] = <<"n","o">> /\ enriched[1][DistanceField] = <<>>
  /\ ~AnalysisOf(rows[2]).isResident
  /\ AnalysisOf(rows[2]).distanceFromBorder # <<>>
  /\ enriched[2][DistanceField] # <<>>

(***************************************************************************)
(* ADDRESSES THAT CANNOT BE GEOCODED                                       *)
(***************************************************************************)

\* the address has no ZIP code that the ZIP table knows
NoKnownZip(addr) ==
  \/ extractZip(addr) = <<>>
  \/ \A i \in DOMAIN ZIP_COORDS : ZIP_COORDS[i].key # extractZip(addr)[1]

\* the address contains no city name that the city table knows
NoKnownCity(addr) ==
  \A i \in DOMAIN MD_CITY_COORDS :
    ~Includes(Trim(ToLowerCase(addr)), MD_CITY_COORDS[i].key)

\* the call classified an address that is not blank, matches neither the ZIP
\* rule nor the name rule and has no known ZIP and no known city
ClassifiedWithoutGazetteer ==
  /\ geoPc = "done"
  /\ ~IsBlank(address)
  /\ ~ZipRule(address)
  /\ ~NameRule(Trim(ToLowerCase(address)))
  /\ NoKnownZip(address)
  /\ NoKnownCity(address)

\* C18 as stated: an address that is not blank, has no target ZIP, does not
\* match the name rule and has no known ZIP and no known city is Non-Resident
\* when it mentions MD or Maryland and Unknown otherwise, in both cases with
\* confidence low, distance null and geocoded false
C18_HeuristicWithoutGeocode ==
  ClassifiedWithoutGazetteer =>
    /\ analysis.isResident = FALSE
    /\ analysis.residencyStatus =
         IF MentionsMaryland(address) THEN "Non-Resident" ELSE "Unknown"
    /\ analysis.confidence = "low"
    /\ analysis.distanceFromBorder = <<>>
    /\ analysis.geocoded = FALSE

\* the same for the addresses whose comma-separated parts name no inherited
\* property
HeuristicWhenNotGeocoded ==
  (ClassifiedWithoutGazetteer /\ coords = <<>>) =>
    /\ analysis.isResident = FALSE
    /\ analysis.residencyStatus =
         IF MentionsMaryland(address) THEN "Non-Resident" ELSE "Unknown"
    /\ analysis.confidence = "low"
    /\ analysis.distanceFromBorder = <<>>
    /\ analysis.geocoded = FALSE

\* an address without a known ZIP or city was classified with high
\* confidence, as geocoded, at an infinite distance
GeocodedToInheritedProperty ==
  /\ ClassifiedWithoutGazetteer
  /\ coords = << InheritedProperty >>
  /\ analysis = NoPointResult

(***************************************************************************)
(* THE WORKED EXAMPLE                                                      *)
(***************************************************************************)

ColumbiaExampleClassified == geoPc = "done" /\ address = ColumbiaExample


(***************************************************************************)
(* THE CONSISTENCY OF A CLASSIFICATION                                     *)
(***************************************************************************)

\* analyzeColumbia has returned
Classified == geoPc = "done"

ResidentClassified == Classified /\ analysis.isResident

DistantClassified ==
  /\ Classified /\ analysis.residencyStatus = "Non-Resident" /\ analysis.geocoded
  /\ analysis.distanceFromBorder # InfiniteDistance

InfiniteDistanceClassified == Classified /\ analysis.distanceFromBorder = InfiniteDistance

UnknownClassified == Classified /\ analysis.residencyStatus = "Unknown"


\* analyzeAndPredict has returned
Returned == pc \in {"done", "stored"}

\* C1: every prediction returned by analyzeAndPredict has a score that is an
\* integer between 1 and 100, never 0, never above 100, never a non-number
C1_ScoreIsIntegerInRange ==
  Returned =>
    \A i \in DOMAIN result.predictions :
      LET score == result.predictions[i].score
      IN  IsFin(score) /\ score.v % FxScale = 0
          /\ score.v >= 1 * FxScale /\ score.v <= 100 * FxScale

\* the feature matrix has been built
Preprocessed == pc \notin {"idle", "start", "preprocess", "threw", "caught"}

\* the number expected by C10 for an empty value of a column of type colType
ExpectedForEmpty(colType) == IF colType = "days_since" THEN 999 * FxScale ELSE 0

\* C10: in the feature matrix built by preprocessData, a value that is empty
\* or missing in a record is encoded 0 under every column type that is
\* encoded as one number, except days_since, under which it is encoded 999
C10_EmptyValueEncoding ==
  Preprocessed =>
    \A c \in Range(commonColumns) :
      \A i \in DOMAIN matrix :
        LET colType == columnTypes[c]
            j == FirstIndex([k \in DOMAIN featureNames |-> featureNames[k] = c])
        IN  (/\ IsNumericLike(colType) \/ IsBinaryType(colType)
             /\ OrEmpty(allRecords[i], c) = <<>>)
            => matrix[i][j] = Fin(ExpectedForEmpty(colType))

\* the two column lists have no name in common
NoCommonName == Range(memberColumns) \cap Range(contactColumns) = {}

\* C5: when the two column lists have no name in common the call throws
\* before anything is preprocessed, normalized, trained or scored and returns
\* no result, and the application shows the message of the error unchanged
C5_NoCommonColumnsFailsFirst ==
  (NoCommonName /\ pc \notin {"idle", "start"}) =>
    /\ pc \in {"threw", "caught"}
    /\ thrown = "No common columns found between member and contact lists. Please ensure both CSVs share at least some column headers."
    /\ matrix = <<>> /\ featureNames = <<>> /\ normalized = <<>>
    /\ weights = <<>> /\ iter = 0 /\ featureImportances = <<>>
    /\ predictions = <<>> /\ result = <<>> /\ analysisResult = <<>>
    /\ (pc = "caught" => error = thrown /\ step = "upload")

C5_Witness ==
  /\ NoCommonName /\ pc = "caught" /\ error # ""
  /\ memberData # <<>> /\ contactData # <<>>

\* C7: every entry of the returned featureImportances has a correlation
\* between -1 and 1 and a confidence that is an integer between 1 and 99
C7_CorrelationAndConfidenceRanges ==
  Returned =>
    \A i \in DOMAIN result.featureImportances :
      LET entry == result.featureImportances[i]
      IN  /\ IsFin(entry.correlation)
          /\ entry.correlation.v >= -FxScale /\ entry.correlation.v <= FxScale
          /\ IsFin(entry.confidence) /\ entry.confidence.v % FxScale = 0
          /\ entry.confidence.v >= FxScale /\ entry.confidence.v <= 99 * FxScale

\* an entry is returned although there is no member record
C7_Witness ==
  /\ Returned /\ memberData = <<>> /\ result.featureImportances # <<>>

\* an entry is returned with the largest confidence
C7_WitnessCap ==
  /\ Returned
  /\ \E i \in DOMAIN result.featureImportances :
       result.featureImportances[i].confidence = Num(99)

\* the trimmed non-empty raw values of column c over all records
RawValues(c) ==
  { Trim(OrEmpty(allRecords[i], c)) : i \in DOMAIN allRecords } \ { <<>> }

\* the included columns typed binary with exactly two distinct values
BinaryColumns ==
  { c \in Range(commonColumns) : IsBinaryType(columnTypes[c]) /\ Cardinality(RawValues(c)) = 2 }

\* the returned entries of column c: the entry named c and the entries named "c (...)"
EntriesOf(c) ==
  LET entries == result.featureImportances
      idx == SelectIdx([i \in DOMAIN entries |->
                          entries[i].field = c \/ StartsWith(entries[i].field, c \o <<" ","(">>)],
                       1, Len(entries))
  IN  [k \in DOMAIN idx |-> entries[idx[k]]]

\* the returned entries of c are two complementary entries, one per value
IsComplementaryPair(c) ==
  LET es == EntriesOf(c)
  IN  /\ Len(es) = 2
      /\ \E a \in RawValues(c) : \E b \in RawValues(c) \ {a} :
           /\ es[1].field = c \o <<" ","(">> \o a \o <<")">>
           /\ es[2].field = c \o <<" ","(">> \o b \o <<")">>
      /\ es[1].direction # es[2].direction
      /\ {es[1].direction, es[2].direction} = {"positive", "negative"}
      /\ es[1].importance = es[2].importance
      /\ es[1].confidence = es[2].confidence
      /\ IsFin(es[1].correlation) /\ IsFin(es[2].correlation)
      /\ es[1].correlation.v = -es[2].correlation.v

\* C4 as stated: a binary column with exactly two distinct values always has
\* exactly two complementary entries in the returned list
C4_BinaryPairAlwaysReturned ==
  Returned => \A c \in BinaryColumns : IsComplementaryPair(c)

\* the importance computed for the single feature of column c
ImportanceOfColumn(c) ==
  Importance(weights, FirstIndex([k \in DOMAIN featureNames |-> featureNames[k] = c]))

\* C4 amended: a binary column with exactly two distinct values has exactly
\* two complementary entries in the returned list when its importance is at
\* least 1, and no entry at all otherwise
C4_BinaryPairWhenImportant ==
  Returned =>
    \A c \in BinaryColumns :
      IF NGe(ImportanceOfColumn(c), Num(1))
      THEN IsComplementaryPair(c)
      ELSE EntriesOf(c) = <<>>

\* a pair is returned whose correlations are not zero
C4_Witness ==
  /\ Returned
  /\ \E c \in BinaryColumns :
       /\ IsComplementaryPair(c)
       /\ EntriesOf(c)[1].correlation # Num(0)

\* the trimmed values of column c, record by record, members first
TrimmedValues(c) == Tuple([i \in DOMAIN allRecords |-> Trim(OrEmpty(allRecords[i], c))])

\* for every record, the rank of its value among the distinct non-empty values
\* of the column in first-seen order, 0 for an empty value: one more than the
\* number of distinct non-empty values seen before its first occurrence
SeenRanks(vals) ==
  Tuple([i \in DOMAIN vals |->
           IF vals[i] = <<>> THEN 0
           ELSE LET first == CHOOSE k \in 1..i :
                               vals[k] = vals[i] /\ \A l \in 1..(k - 1) : vals[l] # vals[i]
                IN  Cardinality({ vals[l] : l \in 1..(first - 1) } \ { <<>> }) + 1])

\* row is the one-hot vector of width n with its 1 at position at, or all
\* zeros when at = 0
IsOneHot(row, n, at) ==
  /\ Len(row) = n
  /\ \A k \in 1..n : row[k] = (IF k = at THEN Fin(FxScale) ELSE Fin(0))

\* C6: for a categorical column with more than 20 distinct trimmed non-empty
\* values, exactly the first 20 values in first-seen order (members first)
\* give one feature 'column::value' each; a record holding one of them has
\* exactly one 1 on these features, any other record has only zeros
C6_OneHotKeepsFirstTwenty ==
  (Preprocessed /\ Len(commonColumns) = 1) =>
    LET c == commonColumns[1]
        vals == TrimmedValues(c)
        rank == SeenRanks(vals)
    IN  (columnTypes[c] = "categorical" /\ Cardinality(Range(vals) \ { <<>> }) > 20) =>
          /\ Len(featureNames) = 20
          /\ \A i \in DOMAIN vals :
               rank[i] \in 1..20 => featureNames[rank[i]] = c \o <<":",":">> \o vals[i]
          /\ \A i \in DOMAIN matrix :
               IsOneHot(matrix[i], 20, IF rank[i] <= 20 THEN rank[i] ELSE 0)

\* a column with more than 20 distinct values, a record that holds the 21st
\* of them as a padded value, and a record with an empty value
C6_Witness ==
  /\ Preprocessed /\ Len(commonColumns) = 1
  /\ memberData # <<>> /\ contactData # <<>>
  /\ LET c == commonColumns[1]
         vals == TrimmedValues(c)
         rank == SeenRanks(vals)
     IN  /\ columnTypes[c] = "categorical"
         /\ Cardinality(Range(vals) \ { <<>> }) > 20
         /\ \E i \in DOMAIN vals : OrEmpty(allRecords[i], c) = <<>>
         /\ \E i \in DOMAIN vals :
              rank[i] = 21 /\ OrEmpty(allRecords[i], c) # vals[i]

\* a second run on the same inputs has returned
RanAgain == runs >= 2 /\ pc = "done"

\* the run returned what the run before it returned
SameAsPrevious ==
  /\ result = previous.result
  /\ weights = previous.weights
  /\ bias = previous.bias

\* C3 as stated: two runs on identical inputs return identical weights,
\* scores, feature importances and explanations at whatever times they run
C3_RerunIdenticalAtAnyTime == RanAgain => SameAsPrevious

\* an included column is typed days_since
HasDaysSinceColumn == \E c \in Range(commonColumns) : columnTypes[c] = "days_since"

\* C3 amended: two runs on identical inputs return identical weights, scores,
\* feature importances and explanations when both read the same time from the
\* clock or no included column is typed days_since
C3_RerunIdenticalAtSameTime ==
  (RanAgain /\ (now = previous.now \/ ~HasDaysSinceColumn)) => SameAsPrevious

\* a second run at another time on a date column with three distinct
\* encodings has returned scores and entries
C3_Witness ==
  /\ RanAgain /\ now # previous.now
  /\ \E c \in Range(commonColumns) : columnTypes[c] = "date"
  /\ \E j \in DOMAIN featureNames :
       Cardinality({ matrix[i][j] : i \in DOMAIN matrix }) >= 3
  /\ result.predictions # <<>> /\ result.featureImportances # <<>>

\* a second run at the same time on a days_since column has returned entries
C3_WitnessSameTime ==
  /\ RanAgain /\ now = previous.now /\ HasDaysSinceColumn
  /\ result.predictions # <<>> /\ result.featureImportances # <<>>


(***************************************************************************)
(* COLUMN TYPE DETECTION                                                   *)
(***************************************************************************)

\* the included columns with no non-empty value in any record
EmptyColumns == { c \in Range(commonColumns) : RawValues(c) = {} }

\* C11 as stated: a column with zero non-empty values across both datasets is
\* typed categorical, whatever its name is
C11_NoValuesIsCategorical ==
  Preprocessed => \A c \in EmptyColumns : columnTypes[c] = "categorical"

\* the name is exactly "age" or contains "_age" or "age_"
IsAgeName(lower) ==
  lower = <<"a","g","e">> \/ Includes(lower, <<"_","a","g","e">>) \/ Includes(lower, <<"a","g","e","_">>)

\* the name contains "distance", "dist_", "_mi" or "miles"
IsDistanceName(lower) ==
  \/ Includes(lower, <<"d","i","s","t","a","n","c","e">>) \/ Includes(lower, <<"d","i","s","t","_">>)
  \/ Includes(lower, <<"_","m","i">>) \/ Includes(lower, <<"m","i","l","e","s">>)

\* C11, amended: a column with zero non-empty values across both datasets is
\* typed age when its name is an age name, distance when its name is a
\* distance name and categorical under every other name; detection never fails
C11_NoValuesTypedByName ==
  Preprocessed =>
    \A c \in EmptyColumns :
      columnTypes[c] =
        IF IsAgeName(ToLowerCase(c)) THEN "age"
        ELSE IF IsDistanceName(ToLowerCase(c)) THEN "distance"
        ELSE "categorical"

\* C11 witness: a column without any non-empty value, in a dataset that has
\* records, has been typed by its age name
C11_Witness ==
  /\ Preprocessed
  /\ EmptyColumns # {}
  /\ Len(allRecords) > 0
  /\ \E c \in EmptyColumns : columnTypes[c] = "age"

\* a share of count out of total that reaches 70%, or exceeds it when strict
ReachesShare(count, total, strict) ==
  /\ total > 0
  /\ IF strict THEN 10 * count > 7 * total ELSE 10 * count >= 7 * total

\* the column was typed by one of the two binary rules
TypedBinary(c) == columnTypes[c] \in {"binary_gender", "binary_parental"}

\* the column is named as an age or a distance
TypedByName(c) == IsAgeName(ToLowerCase(c)) \/ IsDistanceName(ToLowerCase(c))

\* the date, boolean and numeric rules fire, in this order, on every column
\* that no rule of higher priority matches and whose share of matching
\* non-empty values passes the threshold
ShareRulesFire(c, vals, strict) ==
  /\ (~TypedBinary(c) /\ ReachesShare(DateCount(vals), Len(vals), strict))
       => columnTypes[c] \in {"date", "days_since"}
  /\ ( /\ ~TypedBinary(c) /\ ~TypedByName(c)
       /\ ~ReachesShare(DateCount(vals), Len(vals), strict)
       /\ ReachesShare(BoolCount(vals), Len(vals), strict) )
       => columnTypes[c] = "boolean"
  /\ ( /\ ~TypedBinary(c) /\ ~TypedByName(c)
       /\ ~ReachesShare(DateCount(vals), Len(vals), strict)
       /\ ~ReachesShare(BoolCount(vals), Len(vals), strict)
       /\ ReachesShare(NumCount(vals), Len(vals), strict) )
       => columnTypes[c] = "numeric"

\* C12 as stated: a column not matched by a rule of higher priority is typed
\* as a date when at least 70% of its non-empty values match a date pattern,
\* boolean when at least 70% are boolean words, and otherwise numeric when at
\* least 70% parse as a number; a share of exactly 70% satisfies each threshold
C12_ExactlySeventyPercentFires ==
  Preprocessed =>
    \A c \in Range(commonColumns) : ShareRulesFire(c, ColumnValues(allRecords, c), FALSE)

\* the same rules with every threshold read as more than 70%
MoreThanSeventyPercentFires ==
  Preprocessed =>
    \A c \in Range(commonColumns) : ShareRulesFire(c, ColumnValues(allRecords, c), TRUE)

\* a column of ten values, exactly seven of them numbers, has been typed
SevenOfTenNumeric ==
  /\ Preprocessed
  /\ \E c \in Range(commonColumns) :
       /\ ~TypedByName(c) /\ ~TypedBinary(c)
       /\ Len(ColumnValues(allRecords, c)) = 10
       /\ NumCount(ColumnValues(allRecords, c)) = 7
       /\ DateCount(ColumnValues(allRecords, c)) = 0
       /\ BoolCount(ColumnValues(allRecords, c)) = 0


(***************************************************************************)
(* PREDICTIONS                                                             *)
(***************************************************************************)

\* the number of indices of the sequence xs that hold x
Occurrences(xs, x) == Cardinality({ i \in DOMAIN xs : xs[i] = x })

\* the original records of the returned predictions, in their order
PredictedRecords ==
  [i \in DOMAIN result.predictions |-> result.predictions[i].originalData]

\* C13: the returned predictions hold exactly one entry per contact record,
\* originalData being that record, and no entry has a higher score than an
\* entry before it
C13_OnePredictionPerContactByScore ==
  Returned =>
    /\ Len(result.predictions) = Len(contactData)
    /\ \A r \in Range(contactData) \cup Range(PredictedRecords) :
         Occurrences(PredictedRecords, r) = Occurrences(contactData, r)
    /\ \A i, j \in DOMAIN result.predictions :
         i < j => ~NGt(result.predictions[j].score, result.predictions[i].score)

\* C13 witness: two contacts were returned with different scores, the second
\* contact first
C13_Witness ==
  /\ Returned
  /\ Len(contactData) = 2
  /\ contactData[1] # contactData[2]
  /\ result.predictions[1].originalData = contactData[2]
  /\ NGt(result.predictions[1].score, result.predictions[2].score)

\* weight_j * normalized value, rounded to two decimals, for every feature of
\* the contact record at index idx
Contributions(idx) ==
  [j \in DOMAIN weights |-> RoundTo2(NMul(weights[j], ContactMatrix[idx][j]))]

\* the fields of the factors kept
KeptFields(factors) == { factors[k].field : k \in DOMAIN factors }

\* the factors are those of the contributions all: min(10, number of features)
\* entries with distinct fields, each the contribution of its feature, none
\* larger in absolute value than an entry before it, and no feature left out
\* larger in absolute value than an entry kept
IsTopFactors(factors, all) ==
  /\ Len(factors) = Min2(10, Len(weights))
  /\ Cardinality(KeptFields(factors)) = Len(factors)
  /\ \A k \in DOMAIN factors :
       \E j \in DOMAIN all :
         factors[k].field = featureNames[j] /\ factors[k].contribution = all[j]
  /\ \A a, b \in DOMAIN factors :
       a < b => ~NGt(NAbs(factors[b].contribution), NAbs(factors[a].contribution))
  /\ \A j \in DOMAIN all :
       featureNames[j] \notin KeptFields(factors) =>
         \A k \in DOMAIN factors : ~NGt(NAbs(all[j]), NAbs(factors[k].contribution))

\* C14: the factors of every returned prediction are the min(10, number of
\* features) contributions of its contact record that are largest in absolute
\* value, largest first, each weight_j * normalized value rounded to two
\* decimals
C14_FactorsAreLargestTen ==
  Returned =>
    \A i \in DOMAIN result.predictions :
      \E idx \in DOMAIN contactData :
        /\ contactData[idx] = result.predictions[i].originalData
        /\ IsTopFactors(result.predictions[i].factors, Contributions(idx))

\* C14 witness: a prediction over more than ten features was returned whose
\* only contribution that is not 0 belongs to a feature after the tenth
C14_Witness ==
  /\ Returned
  /\ Len(weights) > 10
  /\ \E i \in DOMAIN result.predictions :
     \E j \in DOMAIN weights :
       /\ j > 10
       /\ result.predictions[i].factors[1].field = featureNames[j]
       /\ NGt(NAbs(result.predictions[i].factors[1].contribution), Num(0))
       /\ Len(result.predictions[i].factors) = 10


(***************************************************************************)
(* THE TRAINING LOOP                                                       *)
(***************************************************************************)

\* the sum over the rows of error_i * x_ij
ErrorTimesFeature(X, err, j) == NSum(Tuple([i \in DOMAIN X |-> NMul(err[i], X[i][j])]))

\* weights and bias after a pass from w and b over the rows X with errors
\* err, the L2 term lambda * w_j / m being counted times times in the gradient
\* of weight j
UpdatedBy(X, err, w, b, times) ==
  [ weights |->
      Tuple([j \in DOMAIN w |->
               NSub(w[j], NMul(NDiv(learningRate, Num(Len(X))),
                               NAdd(ErrorTimesFeature(X, err, j),
                                    NMul(Num(times), NDiv(NMul(lambda, w[j]), Num(Len(X)))))))]),
    bias |-> NSub(b, NMul(NDiv(learningRate, Num(Len(X))), NSum(err))) ]

\* the step is a pass of the training loop
IsTrainingPass == pc = "train" /\ iter' # iter

\* the training loop runs the fixed number of passes: a pass is taken only
\* below that number and counts one, and the loop is left only at that number
FixedIterations ==
  /\ IsTrainingPass => iter < Iterations /\ iter' = iter + 1 /\ pc' = "train"
  /\ (pc = "train" /\ pc' # "train") => iter = Iterations

\* C20 as stated: in every pass the gradient of weight j is the sum over the
\* rows of error_i * x_ij plus the L2 term lambda * w_j / m counted once, the
\* bias gradient is the sum of the errors, both are applied with the factor
\* learningRate / m, and the loop runs exactly the fixed number of passes
C20_L2TermCountedOnce ==
  [][ /\ FixedIterations
      /\ IsTrainingPass =>
           /\ weights' = UpdatedBy(normalized, Errors(normalized, labels, weights, bias),
                                   weights, bias, 1).weights
           /\ bias' = UpdatedBy(normalized, Errors(normalized, labels, weights, bias),
                                weights, bias, 1).bias ]_vars

\* C20, amended: as C20, the L2 term lambda * w_j / m being added once for
\* every row, lambda * w_j over the m rows
C20_L2TermCountedPerRow ==
  [][ /\ FixedIterations
      /\ IsTrainingPass =>
           /\ weights' = UpdatedBy(normalized, Errors(normalized, labels, weights, bias),
                                   weights, bias, Len(normalized)).weights
           /\ bias' = UpdatedBy(normalized, Errors(normalized, labels, weights, bias),
                                weights, bias, Len(normalized)).bias ]_vars

\* C20 witness: the loop was left after its last pass over two or more rows,
\* with a weight for which the two readings of the L2 term differ
C20_Witness ==
  /\ pc = "importance"
  /\ iter = Iterations
  /\ Len(normalized) >= 2
  /\ UpdatedBy(normalized, Errors(normalized, labels, weights, bias), weights, bias, 1)
       # UpdatedBy(normalized, Errors(normalized, labels, weights, bias), weights, bias,
                   Len(normalized))


(***************************************************************************)
(* THE VALUE NAMED AS MORE LIKELY                                          *)
(***************************************************************************)

\* the encoded feature value of the raw value v of column c
EncodingOf(c, v) == encodeValue(v, columnTypes[c], now)

\* the trained weight of the feature of column c
WeightOfColumn(c) ==
  weights[FirstIndex([k \in DOMAIN featureNames |-> featureNames[k] = c])]

\* the raw value of column c with the higher, with the lower encoding
HigherEncoded(c) ==
  CHOOSE a \in RawValues(c) : \A b \in RawValues(c) \ {a} : NGt(EncodingOf(c, a), EncodingOf(c, b))

LowerEncoded(c) ==
  CHOOSE a \in RawValues(c) : \A b \in RawValues(c) \ {a} : NLt(EncodingOf(c, a), EncodingOf(c, b))

\* the binary columns with a returned primary entry (the entry of direction
\* positive) whose two raw values have different encodings
NamedBinaryColumns ==
  { c \in BinaryColumns :
      /\ Len(EntriesOf(c)) = 2
      /\ \E a, b \in RawValues(c) : NGt(EncodingOf(c, a), EncodingOf(c, b)) }

\* the primary entry of column c
PrimaryEntry(c) ==
  EntriesOf(c)[CHOOSE k \in DOMAIN EntriesOf(c) : EntriesOf(c)[k].direction = "positive"]

\* C21: the primary entry of a binary column names the raw value with the
\* higher encoding when the trained weight is >= 0 and the raw value with the
\* lower encoding when the weight is negative, for every pair of raw values
C21_MoreLikelyValueMatchesWeight ==
  Returned =>
    \A c \in NamedBinaryColumns :
      /\ NGe(WeightOfColumn(c), Num(0)) =>
           PrimaryEntry(c).field = BinaryName(c, HigherEncoded(c))
      /\ NLt(WeightOfColumn(c), Num(0)) =>
           PrimaryEntry(c).field = BinaryName(c, LowerEncoded(c))

\* the same for the pairs with one value encoded as 1 and the other lower
MoreLikelyValueOfVocabularyPairs ==
  Returned =>
    \A c \in NamedBinaryColumns :
      (EncodingOf(c, HigherEncoded(c)) = Num(1)) =>
        /\ NGe(WeightOfColumn(c), Num(0)) =>
             PrimaryEntry(c).field = BinaryName(c, HigherEncoded(c))
        /\ NLt(WeightOfColumn(c), Num(0)) =>
             PrimaryEntry(c).field = BinaryName(c, LowerEncoded(c))

\* a gender column with the codes 1 and 2 was returned with an entry pair
CodesOneAndTwoReturned ==
  /\ Returned
  /\ \E c \in NamedBinaryColumns : RawValues(c) = { <<"1">>, <<"2">> }


(***************************************************************************)
(* THE ORDER OF THE RETURNED IMPORTANCES                                   *)
(***************************************************************************)

\* the included columns an entry named field can come from: the column of
\* that name, or a column with a value v for the names column::v, column (v)
OwnersOf(field) ==
  { c \in Range(commonColumns) :
      \/ field = c
      \/ \E v \in RawValues(c) : field = CategoryName(c, v) \/ field = BinaryName(c, v) }

\* the input column of the i-th returned entry
OwnerAt(i) == CHOOSE c \in OwnersOf(result.featureImportances[i].field) : TRUE

\* the largest importance among the returned entries of column c
ColumnMaxImportance(c) ==
  CHOOSE x \in { result.featureImportances[i].importance : i \in DOMAIN result.featureImportances } :
    /\ \E i \in DOMAIN result.featureImportances :
         OwnerAt(i) = c /\ result.featureImportances[i].importance = x
    /\ \A i \in DOMAIN result.featureImportances :
         OwnerAt(i) = c => NGe(x, result.featureImportances[i].importance)

\* the position of the feature named field in featureNames, 0 when no
\* feature has the name (the renamed entries of a binary column)
EmissionIndex(field) ==
  FirstIndex([k \in DOMAIN featureNames |-> featureNames[k] = field])

\* the entries at i < k come from one column and stand in emission order:
\* two trained features in the order of featureNames, or the primary entry
\* of a binary column and right after it the complementary entry
InEmissionOrder(i, k) ==
  LET fis == result.featureImportances
  IN  \/ /\ EmissionIndex(fis[i].field) > 0
         /\ EmissionIndex(fis[i].field) < EmissionIndex(fis[k].field)
      \/ /\ EmissionIndex(fis[i].field) = 0 /\ EmissionIndex(fis[k].field) = 0
         /\ k = i + 1
         /\ fis[i].direction = "positive" /\ fis[k].direction = "negative"

\* the returned entries are grouped by input column
GroupedByColumn ==
  \A i \in DOMAIN result.featureImportances :
    /\ OwnersOf(result.featureImportances[i].field) # {}
    /\ \A k \in DOMAIN result.featureImportances :
         i < k =>
           IF OwnerAt(i) = OwnerAt(k)
           THEN /\ \A j \in i..k : OwnerAt(j) = OwnerAt(i)
                /\ InEmissionOrder(i, k)
           ELSE NGe(ColumnMaxImportance(OwnerAt(i)), ColumnMaxImportance(OwnerAt(k)))

\* C22: in the returned featureImportances the entries of one input column
\* are contiguous, the columns stand in non-increasing order of their largest
\* importance, the entries of a column stand in emission order and the
\* primary entry of a binary column is immediately followed by its
\* complementary entry, whatever the column names and category values are
C22_GroupedByColumnInEmissionOrder == Returned => GroupedByColumn

\* the same for the runs in which no category value contains " ("
GroupedWhenNoValueHasParenthesis ==
  (Returned /\ \A c \in Range(commonColumns) : \A v \in RawValues(c) : ~Includes(v, <<" ","(">>))
    => GroupedByColumn

\* a returned list with two entries of the plan column, one for "b (c)"
ParenthesisValueReturned ==
  /\ Returned
  /\ \E i, k \in DOMAIN result.featureImportances :
       /\ i # k
       /\ result.featureImportances[i].field = <<"p","l","a","n",":",":","b"," ","(","c",")">>
       /\ OwnerAt(k) = <<"p","l","a","n">>


(***************************************************************************)
(* THE DIRECTION OF THE RETURNED ENTRIES                                   *)
(***************************************************************************)

\* the direction agrees with the sign of weight
DirectionFollows(direction, weight) ==
  /\ direction = "positive" <=> NGe(weight, Num(0))
  /\ direction = "negative" <=> NLt(weight, Num(0))

\* every returned entry that keeps the name of its feature has the direction
\* of the sign of the weight of that feature
UnrenamedEntriesFollowWeight ==
  \A i \in DOMAIN result.featureImportances :
    LET entry == result.featureImportances[i]
    IN  EmissionIndex(entry.field) > 0 =>
          DirectionFollows(entry.direction, weights[EmissionIndex(entry.field)])

\* the binary columns of which the primary and the complementary entry are returned
PairedBinaryColumns == { c \in BinaryColumns : Len(EntriesOf(c)) = 2 }

\* C23: every returned entry of a trained feature, the renamed primary entry
\* of a binary column included, has the direction positive exactly when the
\* weight of the feature is >= 0 and negative exactly when it is < 0
C23_DirectionFollowsWeight ==
  Returned =>
    /\ UnrenamedEntriesFollowWeight
    /\ \A c \in PairedBinaryColumns :
         DirectionFollows(EntriesOf(c)[1].direction, WeightOfColumn(c))

\* C23: an entry that keeps the name of its feature has the direction of the
\* sign of the weight; the primary entry of a binary column is always
\* positive and its complementary entry negative, whatever the sign is
C23_DirectionFollowsWeightUnlessRenamed ==
  Returned =>
    /\ UnrenamedEntriesFollowWeight
    /\ \A c \in PairedBinaryColumns :
         /\ EntriesOf(c)[1].direction = "positive"
         /\ EntriesOf(c)[2].direction = "negative"

\* a returned list with the pair of a binary column of negative weight
C23_Witness ==
  /\ Returned
  /\ \E c \in PairedBinaryColumns :
       /\ NLt(WeightOfColumn(c), Num(0))
       /\ EntriesOf(c)[1].direction = "positive"

\* a returned entry of negative direction that keeps the name of its feature
NegativeUnrenamedEntry ==
  /\ Returned
  /\ \E i \in DOMAIN result.featureImportances :
       /\ EmissionIndex(result.featureImportances[i].field) > 0
       /\ result.featureImportances[i].direction = "negative"


(***************************************************************************)
(* THE SHAPE OF THE FEATURE MATRIX                                         *)
(***************************************************************************)

\* the distinct non-empty values of column c as the records hold them
UntrimmedValues(c) == { OrEmpty(allRecords[i], c) : i \in DOMAIN allRecords } \ { <<>> }

\* the number of features of column c when a categorical column has one per
\* value of the set values, up to MaxCategories
FeatureCount(c, values) ==
  IF columnTypes[c] = "categorical" THEN Min2(MaxCategories, Cardinality(values)) ELSE 1

RECURSIVE FeaturesBefore(_, _)
\* the number of features of the columns before the k-th, trimmed values counted
FeaturesBefore(k, untrimmed) ==
  IF k <= 1 THEN 0
  ELSE FeaturesBefore(k - 1, untrimmed)
       + FeatureCount(commonColumns[k - 1],
                      IF untrimmed THEN UntrimmedValues(commonColumns[k - 1])
                      ELSE RawValues(commonColumns[k - 1]))

\* row i of the matrix holds, from position at + 1 on, the features of the
\* value of record i in column c
RowHoldsColumn(i, c, at) ==
  IF columnTypes[c] = "categorical"
  THEN \A n \in 1..FeatureCount(c, RawValues(c)) :
         matrix[i][at + n] =
           (IF featureNames[at + n] = CategoryName(c, Trim(OrEmpty(allRecords[i], c)))
            THEN Num(1) ELSE Num(0))
  ELSE /\ featureNames[at + 1] = c
       /\ matrix[i][at + 1] = encodeValue(OrEmpty(allRecords[i], c), columnTypes[c], now)

\* the matrix has one row per record and one feature per name, and every
\* column has FeatureCount features
MatrixShape(untrimmed) ==
  /\ Len(matrix) = Len(allRecords)
  /\ \A i \in DOMAIN matrix : Len(matrix[i]) = Len(featureNames)
  /\ Len(featureNames) = FeaturesBefore(Len(commonColumns) + 1, untrimmed)
  /\ \A k \in DOMAIN commonColumns :
       columnTypes[commonColumns[k]] \in
         { "days_since", "date", "age", "numeric", "boolean", "distance",
           "binary_gender", "binary_parental", "categorical" }
  /\ untrimmed \/ \A i \in DOMAIN matrix : \A k \in DOMAIN commonColumns :
                     RowHoldsColumn(i, commonColumns[k], FeaturesBefore(k, FALSE))

\* C24: the matrix has one row per record in dataset order, every row as
\* long as featureNames; a column of a single-feature type gives one feature
\* named after it and a categorical column min(20, number of distinct
\* non-empty values) features, the values counted as the records hold them
C24_OneFeaturePerDistinctValue == Preprocessed => MatrixShape(TRUE)

\* C24: the same with the values of a categorical column counted after they
\* are trimmed, and row i holding the features of record i
C24_OneFeaturePerDistinctTrimmedValue == Preprocessed => MatrixShape(FALSE)

\* a categorical column with more than 20 distinct values, one of them held
\* by a record with surrounding blanks as well
C24_Witness ==
  /\ Preprocessed
  /\ \E k \in DOMAIN commonColumns :
       /\ columnTypes[commonColumns[k]] = "categorical"
       /\ Cardinality(RawValues(commonColumns[k])) > MaxCategories
       /\ Cardinality(UntrimmedValues(commonColumns[k])) > Cardinality(RawValues(commonColumns[k]))
  /\ Len(featureNames) = MaxCategories


(***************************************************************************)
(* THE NORMALIZED MATRIX                                                   *)
(***************************************************************************)

\* normalizeMatrix has returned
IsNormalized == Preprocessed /\ pc # "normalize"

\* the values of feature j over the member and contact rows
FeatureValues(j) == { matrix[i][j] : i \in DOMAIN matrix }

\* the least and the largest value of feature j
LeastOf(j) == CHOOSE x \in FeatureValues(j) : \A y \in FeatureValues(j) : NGe(y, x)

LargestOf(j) == CHOOSE x \in FeatureValues(j) : \A y \in FeatureValues(j) : NGe(x, y)

\* feature j is scaled to [0, 1]: its least value to 0 and its largest to 1
\* when they differ, every value to 0 when they are equal
ScaledToUnit(j) ==
  /\ \A i \in DOMAIN normalized :
       /\ IsFin(normalized[i][j])
       /\ NGe(normalized[i][j], Num(0)) /\ NGe(Num(1), normalized[i][j])
       /\ (LeastOf(j) = LargestOf(j)) => normalized[i][j] = Num(0)
       /\ (LeastOf(j) # LargestOf(j) /\ matrix[i][j] = LeastOf(j)) => normalized[i][j] = Num(0)
       /\ (LeastOf(j) # LargestOf(j) /\ matrix[i][j] = LargestOf(j)) => normalized[i][j] = Num(1)

\* C25: every normalized value lies in [0, 1], the least value of a feature
\* maps to 0 and the largest to 1 when they differ, and every value of a
\* feature whose least and largest value are equal maps to 0
C25_NormalizedToUnitInterval ==
  IsNormalized =>
    /\ Len(normalized) = Len(matrix)
    /\ \A i \in DOMAIN matrix : \A j \in DOMAIN matrix[i] : ScaledToUnit(j)

\* the same for the features all of whose values are finite
NormalizedWhenFinite ==
  IsNormalized =>
    /\ Len(normalized) = Len(matrix)
    /\ \A i \in DOMAIN matrix : \A j \in DOMAIN matrix[i] :
         (\A x \in FeatureValues(j) : IsFin(x)) => ScaledToUnit(j)

\* a normalized matrix with a feature of different finite values
FiniteFeatureNormalized ==
  /\ IsNormalized
  /\ \E i \in DOMAIN matrix : \E j \in DOMAIN matrix[i] :
       /\ \A x \in FeatureValues(j) : IsFin(x)
       /\ LeastOf(j) # LargestOf(j)


(***************************************************************************)
(* THE IMPORTANCE OF THE FEATURES                                          *)
(***************************************************************************)

\* the entries of the features are computed and not yet renamed or sorted
ImportancesComputed == pc = "binary"

\* x is a whole number between lo and hi
IsIntegerBetween(x, lo, hi) ==
  IsFin(x) /\ x.v % FxScale = 0 /\ x.v >= lo * FxScale /\ x.v <= hi * FxScale

\* the largest absolute value of a weight, at least floor
LargestAbsWeight(floor) ==
  CHOOSE x \in { NAbs(weights[j]) : j \in DOMAIN weights } \cup {floor} :
    \A j \in DOMAIN weights : NGe(x, NAbs(weights[j])) /\ NGe(x, floor)

\* the importance of every feature is the rounded share of its absolute
\* weight in the largest one, a whole number between 0 and 100
ImportanceIsRoundedShare ==
  \A j \in DOMAIN featureImportances :
    /\ IsIntegerBetween(featureImportances[j].importance, 0, 100)
    /\ featureImportances[j].importance =
         NRound(NMul(NDiv(NAbs(WeightAt(weights, j)), LargestAbsWeight(MinAbsWeight)), Num(100)))

\* the returned list holds exactly the sorted entries of importance > 0, all
\* of them between 1 and 100, and the feature of the largest absolute weight
\* is among them with importance 100 when that weight is at least 0.001
ReturnedArePositive ==
  /\ \A i \in DOMAIN result.featureImportances :
       IsIntegerBetween(result.featureImportances[i].importance, 1, 100)
  /\ \A e \in Range(featureImportances) :
       NGt(e.importance, Num(0)) <=> e \in Range(result.featureImportances)
  /\ Len(result.featureImportances) =
       Cardinality({ i \in DOMAIN featureImportances : NGt(featureImportances[i].importance, Num(0)) })
  /\ \A j \in DOMAIN weights :
       (NAbs(weights[j]) = LargestAbsWeight(Num(0)) /\ NGe(NAbs(weights[j]), MinAbsWeight)) =>
         \E i \in DOMAIN result.featureImportances :
           /\ result.featureImportances[i].importance = Num(100)
           /\ \/ result.featureImportances[i].field = featureNames[j]
              \/ /\ featureNames[j] \in BinaryColumns
                 /\ StartsWith(result.featureImportances[i].field, featureNames[j] \o <<" ","(">>)

\* C26: each feature's importance is round(100 |w| / max(0.001, largest |w|)),
\* an integer in [0, 100]; the returned list holds exactly the entries of
\* importance > 0, each in [1, 100], with the feature of the largest weight
\* at importance 100 when that weight is at least 0.001
C26_ImportanceIsIntegerShare ==
  /\ ImportancesComputed => ImportanceIsRoundedShare
  /\ Returned => ReturnedArePositive

\* the same for the runs in which every feature has a weight that is a number
ImportanceWhenWeightsAreNumbers ==
  (\A j \in DOMAIN featureNames : IsFin(WeightAt(weights, j))) =>
    /\ ImportancesComputed => ImportanceIsRoundedShare
    /\ Returned => ReturnedArePositive

\* a returned list with an entry of importance 100 and one below 100
SharesReturned ==
  /\ Returned
  /\ \E i, k \in DOMAIN result.featureImportances :
       /\ result.featureImportances[i].importance = Num(100)
       /\ NLt(result.featureImportances[k].importance, Num(100))

\* entries computed from weights that are not numbers
ImportanceOfNaNWeight ==
  /\ ImportancesComputed
  /\ \E j \in DOMAIN weights : IsNaN(weights[j]) /\ IsNaN(featureImportances[j].importance)


(***************************************************************************)
(* FIELDS THAT ARE NOT INCLUDED                                            *)
(***************************************************************************)

\* the second call, on records with other values of gender, has returned
RanOnOtherValues == runs = 2 /\ pc = "done"

\* the scores of the predictions, in the order returned
ScoresOf(res) == [i \in DOMAIN res.predictions |-> res.predictions[i].score]

\* the values of the included columns of the predicted records, in the order returned
IncludedValuesOf(res) ==
  [i \in DOMAIN res.predictions |->
     [k \in DOMAIN commonColumns |-> res.predictions[i].originalData[commonColumns[k]]]]

\* C28: two runs whose inputs differ only in the values of fields that are
\* not common included columns give the same weights, featureImportances
\* and modelAccuracy and the same score for every contact
C28_ExcludedFieldsHaveNoInfluence ==
  RanOnOtherValues =>
    /\ weights = previous.weights
    /\ bias = previous.bias
    /\ result.featureImportances = previous.result.featureImportances
    /\ result.modelAccuracy = previous.result.modelAccuracy
    /\ ScoresOf(result) = ScoresOf(previous.result)
    /\ IncludedValuesOf(result) = IncludedValuesOf(previous.result)

\* a second run has returned entries and scores for records that differ from
\* those of the first run in the gender of a member and of a contact, with
\* gender in the member column list
C28_Witness ==
  /\ RanOnOtherValues
  /\ Member(<<"g","e","n","d","e","r">>, memberColumns)
  /\ \E i \in DOMAIN memberData : memberData[i] # previous.memberData[i]
  /\ \E i \in DOMAIN contactData : contactData[i] # previous.contactData[i]
  /\ result.featureImportances # <<>> /\ result.predictions # <<>>


(***************************************************************************)
(* THE STEPS OF THE APPLICATION                                            *)
(***************************************************************************)

\* a change of step is one of: upload to analyzing, analyzing to results,
\* analyzing to upload after the analysis threw, results to upload by a reset
AllowedStepMove ==
  step' # step =>
    \/ step = "upload" /\ step' = "analyzing"
    \/ step = "analyzing" /\ step' = "results"
    \/ step = "analyzing" /\ step' = "upload" /\ pc = "threw"
    \/ /\ step = "results" /\ step' = "upload"
       /\ analysisResult' = <<>> /\ memberCsv' = <<>> /\ contactCsv' = <<>>

\* the step that handles a throw of the analysis returns to upload with the
\* message of the error and stores no result
ThrowHandled ==
  (pc = "threw" /\ pc' # pc) =>
    /\ step = "analyzing" /\ step' = "upload"
    /\ error' = thrown /\ error' # ""
    /\ analysisResult' = analysisResult

\* the results step has a result
ResultsHaveResult == step = "results" => analysisResult # <<>>

\* runAnalysis could be called and no field is included
NoIncludedField ==
  /\ step = "upload" /\ NoCallback
  /\ Len(AnalysisFields(memberCsv, contactCsv)) = 0

\* a call of runAnalysis sets the error of no included field, leaves the
\* step at upload and does not start the callback that calls the engine
SetsNoFieldsError ==
  /\ RunAnalysisEffect.error = NoFieldsMessage
  /\ RunAnalysisEffect.step = "upload"
  /\ ~RunAnalysisEffect.timer

\* a call of runAnalysis changes nothing
ReturnsAtOnce ==
  /\ RunAnalysisEffect.error = error
  /\ RunAnalysisEffect.step = step
  /\ ~RunAnalysisEffect.timer

NoFieldsErrorShown ==
  /\ step = "upload" /\ error = NoFieldsMessage
  /\ memberCsv # <<>> /\ contactCsv # <<>>

(***************************************************************************)
(* THE DATA BEHIND THE RESULT SHOWN                                        *)
(***************************************************************************)

\* every contact row held in state has a prediction of its own in res
EveryRowScored(res, csv) ==
  \A idx \in DOMAIN csv.rows : MatchingPredictions(res, csv.headers, csv.rows[idx]) # <<>>

\* C30: whenever the step is results, the result shown was computed from the
\* member and contact datasets held in state, under every interleaving of
\* the completions of parseCSV with the deferred callback of runAnalysis
C30_ResultIsOfHeldData ==
  step = "results" =>
    /\ memberCsv # <<>> /\ contactCsv # <<>>
    /\ memberData = memberCsv.rows
    /\ contactData = contactCsv.rows
    /\ analysisResult.totalMembers = Len(memberCsv.rows)
    /\ analysisResult.totalContacts = Len(contactCsv.rows)
    /\ EveryRowScored(analysisResult, contactCsv)

\* a file was downloaded in which a contact row has the score 0 of a row
\* without a prediction
UnscoredRowDownloaded ==
  /\ step = "results"
  /\ \E idx \in DOMAIN downloaded : downloaded[idx].Membership_Score = Num(0)

====
